---- MODULE Spec2Model ----
(***************************************************************************)
(* Model of the jscontact-tests conformance engine.                        *)
(*                                                                         *)
(* Part 1: the vCard property matcher of vcardutil.py (normalize_vcard,    *)
(* match_value, PropMatch.match and the loop of match_vcard).              *)
(* Part 2: the card normalizer and differ of jscardutil.py.                *)
(***************************************************************************)
EXTENDS Integers, Sequences, FiniteSets, Bags, TLC

(***************************************************************************)
(* Python values                                                           *)
(***************************************************************************)

\* Python's None, where a string is expected (Prop.group, PropMatch.group).
None == "<None>"

\* The strings of the model in code point order: Python compares str values
\* by code point, and list.sort relies on that comparison.
StrOrder ==
    << "", "\"1.0\"", "1", "2", "4.0", "@type", "ALTID", "BEGIN", "DERIVED",
       "EMAIL", "END", "FN", "G1", "JSPROP", "JSPTR", "TITLE", "UID", "VALUE",
       "VCARD", "VERSION", "X-FOO", "a", "b", "bar", "given",
       "hello@example.com", "kind", "text", "true", "u1", "value", "version",
       "x", "{\"a\": 1", "{\"a\": 1\\, \"b\": 2}", "{\"a\":1\\,\"b\":2}",
       "{\"b\": 2\\, \"a\": 1}", "{\"kind\": \"given\", \"value\": \"b\"}",
       "{\"value\": \"a\"}", "{\"value\": \"b\"}" >>

StrRank(s) == CHOOSE i \in 1..Len(StrOrder) : StrOrder[i] = s

StrLess(s, t) == StrRank(s) < StrRank(t)

\* str.upper on the strings of the model.
Upper(s) ==
    CASE s = "a" -> "A"
      [] s = "b" -> "B"
      [] s = "bar" -> "BAR"
      [] s = "text" -> "TEXT"
      [] s = "true" -> "TRUE"
      [] s = "version" -> "VERSION"
      [] s = "x" -> "X"
      [] s = "u1" -> "U1"
      [] OTHER -> s

(***************************************************************************)
(* dict: insertion-ordered sequence of <<key, value>> pairs                *)
(***************************************************************************)
DictKeys(d) == {d[i][1] : i \in DOMAIN d}

DictValues(d) == {d[i][2] : i \in DOMAIN d}

DictHas(d, k) == k \in DictKeys(d)

DictGet(d, k) == d[CHOOSE i \in DOMAIN d : d[i][1] = k][2]

\* d[k] = v: an existing key keeps its position, a new key goes last.
DictSet(d, k, v) ==
    IF DictHas(d, k)
    THEN [i \in DOMAIN d |-> IF d[i][1] = k THEN <<k, v>> ELSE d[i]]
    ELSE Append(d, <<k, v>>)

\* del d[k]
DictDel(d, k) == SelectSeq(d, LAMBDA e : e[1] # k)

\* del l[pos], pos counted from 1
ListDel(l, pos) == [i \in 1..(Len(l) - 1) |-> IF i < pos THEN l[i] ELSE l[i + 1]]

(***************************************************************************)
(* Param, Prop                                                             *)
(***************************************************************************)
Param(name, value) == [name |-> name, value |-> value]

Prop(group, name, params, value) ==
    [group |-> group, name |-> name, params |-> params, value |-> value]

(***************************************************************************)
(* normalize_vcard                                                         *)
(***************************************************************************)

\* list.sort(key=attrgetter(field)): a stable sort, here by insertion.
RECURSIVE InsertByKey(_, _, _)
InsertByKey(sorted, x, field) ==
    IF sorted = <<>> THEN <<x>>
    ELSE IF StrLess(x[field], sorted[Len(sorted)][field])
         THEN Append(InsertByKey(SubSeq(sorted, 1, Len(sorted) - 1), x, field),
                     sorted[Len(sorted)])
         ELSE Append(sorted, x)

RECURSIVE SortByKey(_, _)
SortByKey(l, field) ==
    IF l = <<>> THEN <<>>
    ELSE InsertByKey(SortByKey(SubSeq(l, 1, Len(l) - 1), field), l[Len(l)], field)

SortParams(prop) ==
    [prop EXCEPT !.params = SortByKey(SortByKey(prop.params, "value"), "name")]

\* normalize_vcard returning the sorted body without BEGIN and END
normalize_vcard_DropWrapper(vprops) ==
    LET spliced == Len(vprops) > 2 /\ vprops[1].name = "BEGIN"
                      /\ vprops[Len(vprops)].name = "END"
        body == IF spliced THEN SubSeq(vprops, 2, Len(vprops) - 1) ELSE vprops
        withParams == [i \in DOMAIN body |-> SortParams(body[i])]
    IN SortByKey(SortByKey(withParams, "value"), "name")

normalize_vcard(vprops) ==
    LET spliced == Len(vprops) > 2 /\ vprops[1].name = "BEGIN"
                      /\ vprops[Len(vprops)].name = "END"
        head == IF spliced THEN <<vprops[1]>> ELSE <<>>
        tail == IF spliced THEN <<vprops[Len(vprops)]>> ELSE <<>>
        body == IF spliced THEN SubSeq(vprops, 2, Len(vprops) - 1) ELSE vprops
        withParams == [i \in DOMAIN body |-> SortParams(body[i])]
    IN head \o SortByKey(SortByKey(withParams, "value"), "name") \o tail

(***************************************************************************)
(* JSON values as Python holds them.  Every value is a record of one       *)
(* shape: t the Python type, s the literal of a scalar, kv the entries of  *)
(* a dict in insertion order as <<key, value>> or the items of a list as   *)
(* <<"", item>>.                                                           *)
(***************************************************************************)
JStr(x) == [t |-> "str", s |-> x, kv |-> <<>>]

JInt(x) == [t |-> "int", s |-> x, kv |-> <<>>]

JBool(b) == [t |-> "bool", s |-> IF b THEN "true" ELSE "false", kv |-> <<>>]

JNone == [t |-> "None", s |-> "null", kv |-> <<>>]

JDict(entries) == [t |-> "dict", s |-> "", kv |-> entries]

JList(items) ==
    [t |-> "list", s |-> "", kv |-> [i \in DOMAIN items |-> <<"", items[i]>>]]

\* int(s) on the digit strings of the model
IntOf(s) ==
    CASE s = "0" -> 0
      [] s = "1" -> 1
      [] s = "2" -> 2
      [] s = "3" -> 3
      [] s = "5" -> 5

\* the number a bool or int compares as: True == 1, False == 0
PyNumber(v) ==
    IF v.t = "bool" THEN (IF v.s = "true" THEN 1 ELSE 0) ELSE IntOf(v.s)

\* bool(v)
Truthy(v) ==
    CASE v.t = "None" -> FALSE
      [] v.t \in {"bool", "int"} -> PyNumber(v) # 0
      [] v.t = "str" -> v.s # ""
      [] OTHER -> v.kv # <<>>

\* a == b: dicts compare as sets of items, lists by position, bool with int by
\* number
RECURSIVE PyEq(_, _)
PyEq(a, b) ==
    CASE a.t = "dict" /\ b.t = "dict" ->
             /\ DictKeys(a.kv) = DictKeys(b.kv)
             /\ \A k \in DictKeys(a.kv) : PyEq(DictGet(a.kv, k), DictGet(b.kv, k))
      [] a.t = "list" /\ b.t = "list" ->
             /\ Len(a.kv) = Len(b.kv)
             /\ \A i \in DOMAIN a.kv : PyEq(a.kv[i][2], b.kv[i][2])
      [] a.t \in {"bool", "int"} /\ b.t \in {"bool", "int"} ->
             PyNumber(a) = PyNumber(b)
      [] a.t = "str" /\ b.t = "str" -> a.s = b.s
      [] a.t = "None" /\ b.t = "None" -> TRUE
      [] OTHER -> FALSE

\* the outcome of a call: the exception it raised ("" for none) and its value
Ok(v) == [raised |-> "", val |-> v]

Raise(e) == [raised |-> e, val |-> JNone]

\* json.dumps(v, sort_keys=sort_keys); the strings of the model hold no
\* character that dumps escapes
RECURSIVE json_dumps(_, _)
RECURSIVE JoinDumps(_, _, _, _)
JoinDumps(kv, i, isdict, sort_keys) ==
    IF i > Len(kv) THEN ""
    ELSE (IF i > 1 THEN ", " ELSE "")
             \o (IF isdict THEN "\"" \o kv[i][1] \o "\": " ELSE "")
             \o json_dumps(kv[i][2], sort_keys)
             \o JoinDumps(kv, i + 1, isdict, sort_keys)

json_dumps(v, sort_keys) ==
    CASE v.t = "str" -> "\"" \o v.s \o "\""
      [] v.t \in {"int", "bool", "None"} -> v.s
      [] v.t = "list" -> "[" \o JoinDumps(v.kv, 1, FALSE, sort_keys) \o "]"
      [] v.t = "dict" ->
             "{" \o JoinDumps(IF sort_keys THEN SortByKey(v.kv, 1) ELSE v.kv,
                              1, TRUE, sort_keys) \o "}"

(***************************************************************************)
(* Value specifications and match_value                                    *)
(***************************************************************************)
AnyValue == [t |-> "AnyValue", v |-> ""]

Literal(s) == [t |-> "str", v |-> s]

NoCaseValue(s) == [t |-> "NoCaseValue", v |-> s]

NoCaseValue_match(self, val) == Upper(self.v) = Upper(val)

\* textval.replace(r"\,", ",").replace(r"\\", "\\") on the values of the
\* model: only the JSON texts hold a backslash
Unescape(textval) ==
    CASE textval = "{\"a\": 1\\, \"b\": 2}" -> "{\"a\": 1, \"b\": 2}"
      [] textval = "{\"b\": 2\\, \"a\": 1}" -> "{\"b\": 2, \"a\": 1}"
      [] textval = "{\"a\":1\\,\"b\":2}" -> "{\"a\":1,\"b\":2}"
      [] OTHER -> textval

\* values of the model that are no JSON text
NotJson == {"", "{\"a\": 1", "a", "b", "bar", "x", "u1", "hello@example.com"}

\* json.loads(s) on the texts a TextJSONValue meets in the model
json_loads(s) ==
    CASE s = "{\"a\": 1, \"b\": 2}" ->
             Ok(JDict(<< <<"a", JInt("1")>>, <<"b", JInt("2")>> >>))
      [] s = "{\"a\":1,\"b\":2}" ->
             Ok(JDict(<< <<"a", JInt("1")>>, <<"b", JInt("2")>> >>))
      [] s = "{\"b\": 2, \"a\": 1}" ->
             Ok(JDict(<< <<"b", JInt("2")>>, <<"a", JInt("1")>> >>))
      [] s = "\"1.0\"" -> Ok(JStr("1.0"))
      [] s = "1" -> Ok(JInt("1"))
      [] s = "2" -> Ok(JInt("2"))
      [] s = "true" -> Ok(JBool(TRUE))
      [] s \in NotJson -> Raise("JSONDecodeError")

\* TextJSONValue.__init__: self.val = json.dumps(json.loads(jval))
TextJSONValue(jval) ==
    [t |-> "TextJSONValue", v |-> json_dumps(json_loads(jval).val, FALSE)]

\* TextJSONValue.match
TextJSONValue_match(self, textval) ==
    LET jval == json_loads(Unescape(textval))
    IN IF jval.raised = "JSONDecodeError" THEN FALSE
       ELSE self.v = json_dumps(jval.val, FALSE)

match_value(want, have) ==
    CASE want.t = "AnyValue" -> TRUE
      [] want.t = "NoCaseValue" -> NoCaseValue_match(want, have)
      [] want.t = "TextJSONValue" -> TextJSONValue_match(want, have)
      [] OTHER -> want.v = have

(***************************************************************************)
(* ParamMatch, GroupMatch, AltIdMatch, PropMatch                           *)
(***************************************************************************)
ParamMatch(name, value, mandatory) ==
    [name |-> name, value |-> value, mandatory |-> mandatory]

\* PropMatch.group: None, a literal group string, or GroupMatch(id)
NoGroup == [kind |-> "None", v |-> None]

GroupStr(s) == [kind |-> "str", v |-> s]

GroupMatch(id) == [kind |-> "GroupMatch", v |-> id]

\* PropMatch.alt_id: None or AltIdMatch(id, mandatory)
NoAltId == [set |-> FALSE, id |-> None, mandatory |-> FALSE]

AltIdMatch(id, mandatory) == [set |-> TRUE, id |-> id, mandatory |-> mandatory]

PropMatch(name, value, params, mandatory, alt_id, group) ==
    [name |-> name, value |-> value, params |-> params, mandatory |-> mandatory,
     alt_id |-> alt_id, group |-> group]

(***************************************************************************)
(* PropMatch.match                                                         *)
(***************************************************************************)

\* defaultdict(list): d[m.name].append(m) for each m of items, in order
RECURSIVE AppendByName(_, _)
AppendByName(d, items) ==
    IF items = <<>> THEN d
    ELSE LET e == AppendByName(d, SubSeq(items, 1, Len(items) - 1))
             m == items[Len(items)]
         IN IF DictHas(e, m.name)
            THEN DictSet(e, m.name, Append(DictGet(e, m.name), m))
            ELSE DictSet(e, m.name, <<m>>)

\* param_matches_byname, filled from self.params
ParamMatchesByName(params) == AppendByName(<<>>, params)

\* position of the first ParamMatch of the list whose value matches, 0 for
\* Python's -1
FirstParamMatch(param_matches, param) ==
    LET hits == {i \in DOMAIN param_matches :
                    match_value(param_matches[i].value, param.value)}
    IN IF hits = {} THEN 0 ELSE CHOOSE i \in hits : \A j \in hits : i <= j

\* ConsumeParams without "if param.name == ALTID: continue"
RECURSIVE ConsumeParams_NoAltIdSkip(_, _, _)
ConsumeParams_NoAltIdSkip(params, i, byname) ==
    IF i > Len(params) THEN [ok |-> TRUE, byname |-> byname]
    ELSE IF ~DictHas(byname, params[i].name)
         THEN [ok |-> FALSE, byname |-> byname]
    ELSE LET param_matches == DictGet(byname, params[i].name)
             pos == FirstParamMatch(param_matches, params[i])
             rest == ListDel(param_matches, pos)
         IN IF pos = 0 THEN [ok |-> FALSE, byname |-> byname]
            ELSE ConsumeParams_NoAltIdSkip(params, i + 1,
                     IF rest # <<>> THEN DictSet(byname, params[i].name, rest)
                     ELSE DictDel(byname, params[i].name))

\* ConsumeParams that pairs the parameters with the ParamMatch list by
\* position instead of by name
RECURSIVE ConsumeParams_Positional(_, _, _)
ConsumeParams_Positional(params, i, byname) ==
    IF i > Len(params) THEN [ok |-> TRUE, byname |-> byname]
    ELSE IF params[i].name = "ALTID" THEN ConsumeParams_Positional(params, i + 1, byname)
    ELSE IF byname = <<>> THEN [ok |-> FALSE, byname |-> byname]
    ELSE LET first == byname[1][2][1]
             rest == ListDel(byname[1][2], 1)
         IN IF first.name # params[i].name \/ ~match_value(first.value, params[i].value)
            THEN [ok |-> FALSE, byname |-> byname]
            ELSE ConsumeParams_Positional(params, i + 1,
                     IF rest # <<>> THEN DictSet(byname, first.name, rest)
                     ELSE DictDel(byname, first.name))

\* the loop over prop.params: every parameter but ALTID consumes the first
\* ParamMatch of its name that matches its value
RECURSIVE ConsumeParams(_, _, _)
ConsumeParams(params, i, byname) ==
    IF i > Len(params) THEN [ok |-> TRUE, byname |-> byname]
    ELSE IF params[i].name = "ALTID" THEN ConsumeParams(params, i + 1, byname)
    ELSE IF ~DictHas(byname, params[i].name)
         THEN [ok |-> FALSE, byname |-> byname]
    ELSE LET param_matches == DictGet(byname, params[i].name)
             pos == FirstParamMatch(param_matches, params[i])
             rest == ListDel(param_matches, pos)
         IN IF pos = 0 THEN [ok |-> FALSE, byname |-> byname]
            ELSE ConsumeParams(params, i + 1,
                     IF rest # <<>> THEN DictSet(byname, params[i].name, rest)
                     ELSE DictDel(byname, params[i].name))

\* "Match parameters, except ALTID"
MatchParams(self, prop) ==
    LET r == ConsumeParams(prop.params, 1, ParamMatchesByName(self.params))
    IN /\ r.ok
       /\ \A e \in DictValues(r.byname) : \A i \in DOMAIN e : ~e[i].mandatory

AltIdParams(prop) == SelectSeq(prop.params, LAMBDA p : p.name = "ALTID")

\* MatchAltId without "if altid_params[0].value in altid_by_id.values()"
MatchAltId_NoValuesCheck(self, prop, altid_by_id) ==
    LET altid_params == AltIdParams(prop)
        keep == [ok |-> TRUE, altid_by_id |-> altid_by_id]
        fail == [ok |-> FALSE, altid_by_id |-> altid_by_id]
    IN IF Len(altid_params) > 1 THEN fail
       ELSE IF ~self.alt_id.set THEN keep
       ELSE IF self.alt_id.mandatory /\ altid_params = <<>> THEN fail
       ELSE IF altid_params = <<>> THEN keep
       ELSE IF DictHas(altid_by_id, self.alt_id.id)
            THEN IF altid_params[1].value # DictGet(altid_by_id, self.alt_id.id)
                 THEN fail ELSE keep
       ELSE [ok |-> TRUE,
             altid_by_id |-> DictSet(altid_by_id, self.alt_id.id, altid_params[1].value)]

\* MatchAltId that stores the observed ALTID over an existing binding
MatchAltId_Rebind(self, prop, altid_by_id) ==
    LET altid_params == AltIdParams(prop)
        keep == [ok |-> TRUE, altid_by_id |-> altid_by_id]
        fail == [ok |-> FALSE, altid_by_id |-> altid_by_id]
    IN IF Len(altid_params) > 1 THEN fail
       ELSE IF ~self.alt_id.set THEN keep
       ELSE IF self.alt_id.mandatory /\ altid_params = <<>> THEN fail
       ELSE IF altid_params = <<>> THEN keep
       ELSE IF ~DictHas(altid_by_id, self.alt_id.id)
                 /\ altid_params[1].value \in DictValues(altid_by_id) THEN fail
       ELSE [ok |-> TRUE,
             altid_by_id |-> DictSet(altid_by_id, self.alt_id.id, altid_params[1].value)]

\* "Match ALTID": the verdict and the altid_by_id dict as the check leaves it
MatchAltId(self, prop, altid_by_id) ==
    LET altid_params == AltIdParams(prop)
        keep == [ok |-> TRUE, altid_by_id |-> altid_by_id]
        fail == [ok |-> FALSE, altid_by_id |-> altid_by_id]
    IN IF Len(altid_params) > 1 THEN fail
       ELSE IF ~self.alt_id.set THEN keep
       ELSE IF self.alt_id.mandatory /\ altid_params = <<>> THEN fail
       ELSE IF altid_params = <<>> THEN keep
       ELSE IF DictHas(altid_by_id, self.alt_id.id)
            THEN IF altid_params[1].value # DictGet(altid_by_id, self.alt_id.id)
                 THEN fail ELSE keep
       ELSE IF altid_params[1].value \in DictValues(altid_by_id) THEN fail
       ELSE [ok |-> TRUE,
             altid_by_id |-> DictSet(altid_by_id, self.alt_id.id, altid_params[1].value)]

\* "Match group": the verdict and the group_by_id dict as the check leaves it
MatchGroup(self, prop, group_by_id) ==
    LET keep == [ok |-> TRUE, group_by_id |-> group_by_id]
        fail == [ok |-> FALSE, group_by_id |-> group_by_id]
    IN IF self.group.kind = "None" \/ self.group.v = "" THEN keep
       ELSE IF self.group.kind = "GroupMatch"
            THEN IF DictHas(group_by_id, self.group.v)
                 THEN IF prop.group # DictGet(group_by_id, self.group.v)
                      THEN fail ELSE keep
                 ELSE IF prop.group \in DictValues(group_by_id) THEN fail
                 ELSE [ok |-> TRUE,
                       group_by_id |-> DictSet(group_by_id, self.group.v, prop.group)]
       ELSE IF prop.group # self.group.v THEN fail ELSE keep

\* PropMatch.match(self, prop, group_by_id, altid_by_id): the returned bool
\* and the two dicts as the call leaves them (it writes to them in place).
PropMatch_match(self, prop, group_by_id, altid_by_id) ==
    LET unchanged == [ok |-> FALSE, group_by_id |-> group_by_id,
                      altid_by_id |-> altid_by_id]
    IN IF ~match_value(self.value, prop.value) THEN unchanged
       ELSE IF ~MatchParams(self, prop) THEN unchanged
       ELSE LET a == MatchAltId(self, prop, altid_by_id)
            IN IF ~a.ok
               THEN [ok |-> FALSE, group_by_id |-> group_by_id,
                     altid_by_id |-> a.altid_by_id]
               ELSE LET g == MatchGroup(self, prop, group_by_id)
                    IN [ok |-> g.ok, group_by_id |-> g.group_by_id,
                        altid_by_id |-> a.altid_by_id]

(***************************************************************************)
(* default_matches, PropMatchError                                         *)
(***************************************************************************)
default_matches ==
    << PropMatch("PRODID", AnyValue, <<>>, FALSE, NoAltId, NoGroup),
       PropMatch("REV", AnyValue, <<>>, FALSE, NoAltId, NoGroup),
       PropMatch("UID", AnyValue, <<>>, TRUE, NoAltId, NoGroup),
       PropMatch("VERSION", Literal("4.0"), <<>>, TRUE, NoAltId, NoGroup),
       PropMatch("FN", AnyValue,
                 <<ParamMatch("DERIVED", NoCaseValue("TRUE"), FALSE)>>,
                 TRUE, NoAltId, NoGroup),
       PropMatch("JSPROP", Literal("\"1.0\""),
                 <<ParamMatch("JSPTR", Literal("version"), TRUE),
                   ParamMatch("VALUE", NoCaseValue("TEXT"), FALSE)>>,
                 FALSE, NoAltId, NoGroup),
       PropMatch("CREATED", AnyValue, <<>>, FALSE, NoAltId, NoGroup) >>

\* PropMatchError(prop, candidates); a one-element prop list stands for the
\* Prop, the empty list for None
PropMatchError_mismatched(prop, candidates) ==
    [kind |-> "mismatched", prop |-> <<prop>>, candidates |-> candidates]

PropMatchError_unmatched(candidates) ==
    [kind |-> "unmatched", prop |-> <<>>, candidates |-> candidates]

\* PropMatchError.unexpected that builds a mismatched diagnostic
PropMatchError_unexpected_AsMismatched(prop) ==
    [kind |-> "mismatched", prop |-> <<prop>>, candidates |-> <<>>]

PropMatchError_unexpected(prop) ==
    [kind |-> "unexpected", prop |-> <<prop>>, candidates |-> <<>>]

(***************************************************************************)
(* match_vcard, as a function of its arguments                             *)
(***************************************************************************)

\* The patterns of one run keep their identity (they are objects): pid is the
\* position in want_matches followed by default_matches.
WithPid(matches, offset) ==
    [i \in DOMAIN matches |-> [pid |-> offset + i] @@ matches[i]]

\* matches_by_name with every default pattern added, also for the names the
\* caller used
InitialMatchesByName_AllDefaults(want_matches) ==
    AppendByName(AppendByName(<<>>, WithPid(want_matches, 0)),
                 WithPid(default_matches, Len(want_matches)))

\* matches_by_name as built before the loop: the caller's patterns, then the
\* default patterns of the names the caller did not use
InitialMatchesByName(want_matches) ==
    LET want_name == {want_matches[i].name : i \in DOMAIN want_matches}
        defaults == SelectSeq(WithPid(default_matches, Len(want_matches)),
                              LAMBDA pm : pm.name \notin want_name)
    IN AppendByName(AppendByName(<<>>, WithPid(want_matches, 0)), defaults)

MissingBeginOrEnd(vprops) ==
    IF Len(vprops) <= 2 THEN TRUE
    ELSE IF vprops[1].name # "BEGIN" THEN TRUE
    ELSE vprops[Len(vprops)].name # "END"

\* props = normalize_vcard(props); props = props[1:-1]
ContentProps(vprops) ==
    LET n == normalize_vcard(vprops) IN SubSeq(n, 2, Len(n) - 1)

\* for idx, pm in enumerate(matches): if pm.match(...): pos = idx; break
\* pos is 0 for Python's -1; the dicts are as the calls left them
RECURSIVE ScanCandidates(_, _, _, _, _)
ScanCandidates(matches, prop, group_by_id, altid_by_id, idx) ==
    IF idx > Len(matches)
    THEN [pos |-> 0, group_by_id |-> group_by_id, altid_by_id |-> altid_by_id]
    ELSE LET r == PropMatch_match(matches[idx], prop, group_by_id, altid_by_id)
         IN IF r.ok
            THEN [pos |-> idx, group_by_id |-> r.group_by_id,
                  altid_by_id |-> r.altid_by_id]
            ELSE ScanCandidates(matches, prop, r.group_by_id, r.altid_by_id, idx + 1)

\* ConsumeMatch that deletes the first candidate of the list, not the accepted
ConsumeMatch_DelFirst(matches_by_name, name, pos) ==
    LET rest == ListDel(DictGet(matches_by_name, name), 1)
    IN IF rest # <<>> THEN DictSet(matches_by_name, name, rest)
       ELSE DictDel(matches_by_name, name)

\* del matches[pos], then the list is stored back or its key deleted
ConsumeMatch(matches_by_name, name, pos) ==
    LET rest == ListDel(DictGet(matches_by_name, name), pos)
    IN IF rest # <<>> THEN DictSet(matches_by_name, name, rest)
       ELSE DictDel(matches_by_name, name)

\* one iteration of "for prop in props"
ProcessProp(st, prop) ==
    IF ~DictHas(st.matches_by_name, prop.name)
    THEN [st EXCEPT !.match_errors = Append(@, PropMatchError_unexpected(prop))]
    ELSE LET matches == DictGet(st.matches_by_name, prop.name)
             s == ScanCandidates(matches, prop, st.group_by_id, st.altid_by_id, 1)
         IN IF s.pos = 0
            THEN [st EXCEPT !.match_errors =
                                Append(@, PropMatchError_mismatched(prop, matches)),
                            !.group_by_id = s.group_by_id,
                            !.altid_by_id = s.altid_by_id]
            ELSE [st EXCEPT !.matches_by_name = ConsumeMatch(@, prop.name, s.pos),
                            !.group_by_id = s.group_by_id,
                            !.altid_by_id = s.altid_by_id]

RECURSIVE MatchLoop(_, _)
MatchLoop(props, st) ==
    IF props = <<>> THEN st
    ELSE ProcessProp(MatchLoop(SubSeq(props, 1, Len(props) - 1), st), props[Len(props)])

RECURSIVE Flatten(_)
Flatten(lists) ==
    IF lists = <<>> THEN <<>>
    ELSE Flatten(SubSeq(lists, 1, Len(lists) - 1)) \o lists[Len(lists)]

\* UnmatchedMatches without "if pm.mandatory"
UnmatchedMatches_IncludeOptional(matches_by_name) ==
    Flatten([i \in DOMAIN matches_by_name |-> matches_by_name[i][2]])

\* unmatched_matches: the mandatory patterns left in matches_by_name.values()
UnmatchedMatches(matches_by_name) ==
    SelectSeq(Flatten([i \in DOMAIN matches_by_name |-> matches_by_name[i][2]]),
              LAMBDA pm : pm.mandatory)

\* FinalErrors that replaces the diagnostics by the unmatched report
FinalErrors_Overwrite(match_errors, matches_by_name) ==
    IF UnmatchedMatches(matches_by_name) # <<>>
    THEN <<PropMatchError_unmatched(UnmatchedMatches(matches_by_name))>>
    ELSE match_errors

\* match_errors after "if unmatched_matches: match_errors.append(...)"
FinalErrors(match_errors, matches_by_name) ==
    IF UnmatchedMatches(matches_by_name) # <<>>
    THEN Append(match_errors,
                PropMatchError_unmatched(UnmatchedMatches(matches_by_name)))
    ELSE match_errors

\* "if match_errors: raise VCardMatchError"
Raises(match_errors) == IF match_errors # <<>> THEN "VCardMatchError" ELSE "None"

InitialState(want_matches) ==
    [matches_by_name |-> InitialMatchesByName(want_matches),
     group_by_id |-> <<>>, altid_by_id |-> <<>>, match_errors |-> <<>>]

\* the loop of match_vcard on a list of content properties taken in the given
\* order, and the verdict
RunLoop(content, want_matches) ==
    LET st == MatchLoop(content, InitialState(want_matches))
        errors == FinalErrors(st.match_errors, st.matches_by_name)
    IN [raised |-> Raises(errors), match_errors |-> errors,
        group_by_id |-> st.group_by_id, altid_by_id |-> st.altid_by_id,
        matches_by_name |-> st.matches_by_name]

(***************************************************************************)
(* Part 2: the card normalizer and differ of jscardutil.py                 *)
(***************************************************************************)

(***************************************************************************)
(* remove_defaultval                                                       *)
(***************************************************************************)
RECURSIVE remove_defaultval(_, _, _)
RECURSIVE RemoveInEach(_, _, _, _)
\* for subobj in iter: remove_defaultval(subobj, subpath, defaultval)
RemoveInEach(kv, i, subpath, defaultval) ==
    IF i > Len(kv) THEN [raised |-> "", kv |-> kv]
    ELSE LET r == remove_defaultval(kv[i][2], subpath, defaultval)
         IN IF r.raised # "" THEN [raised |-> r.raised, kv |-> kv]
            ELSE RemoveInEach([kv EXCEPT ![i] = <<kv[i][1], r.val>>], i + 1,
                              subpath, defaultval)

\* remove_defaultval that deletes the leaf whatever its value
remove_defaultval_AnyValue(jsobj, path, defaultval) ==
    IF path = <<>> THEN Ok(jsobj)
    ELSE IF ~Truthy(jsobj) THEN Ok(jsobj)
    ELSE LET name == Head(path)
             subpath == Tail(path)
         IN IF name = "*" /\ subpath # <<>>
            THEN IF jsobj.t \in {"dict", "list"}
                 THEN LET r == RemoveInEach(jsobj.kv, 1, subpath, defaultval)
                      IN [raised |-> r.raised,
                          val |-> [jsobj EXCEPT !.kv = r.kv]]
                 ELSE Raise("AttributeError")
            ELSE IF jsobj.t # "dict" THEN Raise("AttributeError")
            ELSE IF subpath # <<>>
            THEN IF DictHas(jsobj.kv, name)
                 THEN LET r == remove_defaultval(DictGet(jsobj.kv, name), subpath,
                                                 defaultval)
                      IN [raised |-> r.raised,
                          val |-> [jsobj EXCEPT !.kv = DictSet(@, name, r.val)]]
                 ELSE Ok(jsobj)
            ELSE Ok([jsobj EXCEPT !.kv = DictDel(@, name)])

\* A str under "*" is iterated by character and the call on the character
\* fails in .get, an int or bool has no __iter__: AttributeError either way.
remove_defaultval(jsobj, path, defaultval) ==
    IF path = <<>> THEN Ok(jsobj)
    ELSE IF ~Truthy(jsobj) THEN Ok(jsobj)
    ELSE LET name == Head(path)
             subpath == Tail(path)
         IN IF name = "*" /\ subpath # <<>>
            THEN IF jsobj.t \in {"dict", "list"}
                 THEN LET r == RemoveInEach(jsobj.kv, 1, subpath, defaultval)
                      IN [raised |-> r.raised,
                          val |-> [jsobj EXCEPT !.kv = r.kv]]
                 ELSE Raise("AttributeError")
            ELSE IF jsobj.t # "dict" THEN Raise("AttributeError")
            ELSE IF subpath # <<>>
            THEN IF DictHas(jsobj.kv, name)
                 THEN LET r == remove_defaultval(DictGet(jsobj.kv, name), subpath,
                                                 defaultval)
                      IN [raised |-> r.raised,
                          val |-> [jsobj EXCEPT !.kv = DictSet(@, name, r.val)]]
                 ELSE Ok(jsobj)
            ELSE IF DictHas(jsobj.kv, name)
            THEN IF PyEq(DictGet(jsobj.kv, name), defaultval)
                 THEN Ok([jsobj EXCEPT !.kv = DictDel(@, name)])
                 ELSE Ok(jsobj)
            ELSE Ok(jsobj)

(***************************************************************************)
(* sort_unordered_components                                               *)
(***************************************************************************)

\* comps.sort(key=lambda v: json.dumps(v, sort_keys=True)): stable
RECURSIVE InsertByDumps(_, _)
InsertByDumps(sorted, x) ==
    IF sorted = <<>> THEN <<x>>
    ELSE IF StrLess(json_dumps(x[2], TRUE),
                    json_dumps(sorted[Len(sorted)][2], TRUE))
         THEN Append(InsertByDumps(SubSeq(sorted, 1, Len(sorted) - 1), x),
                     sorted[Len(sorted)])
         ELSE Append(sorted, x)

RECURSIVE SortByDumps(_)
SortByDumps(l) ==
    IF l = <<>> THEN <<>>
    ELSE InsertByDumps(SortByDumps(SubSeq(l, 1, Len(l) - 1)), l[Len(l)])

sort_unordered_components(jsobj) ==
    IF jsobj.t # "dict" THEN Raise("AttributeError")
    ELSE IF DictHas(jsobj.kv, "isOrdered")
              /\ Truthy(DictGet(jsobj.kv, "isOrdered")) THEN Ok(jsobj)
    ELSE IF ~DictHas(jsobj.kv, "components") THEN Ok(jsobj)
    ELSE LET comps == DictGet(jsobj.kv, "components")
         IN IF ~Truthy(comps) THEN Ok(jsobj)
            ELSE IF comps.t # "list" THEN Raise("AttributeError")
            ELSE Ok([jsobj EXCEPT !.kv =
                        DictSet(@, "components",
                                [comps EXCEPT !.kv = SortByDumps(@)])])

(***************************************************************************)
(* apply_patchobject                                                       *)
(***************************************************************************)

\* key.split("/") on the patch keys of the model
Split(key) ==
    CASE key = "name/full" -> <<"name", "full">>
      [] key = "name/given" -> <<"name", "given">>
      [] key = "name/zz/z" -> <<"name", "zz", "z">>
      [] key = "name/full/z" -> <<"name", "full", "z">>
      [] key = "name/isOrdered/z" -> <<"name", "isOrdered", "z">>
      [] key = "name/components/0/value" -> <<"name", "components", "0", "value">>
      [] key = "name/components/5/value" -> <<"name", "components", "5", "value">>
      [] key = "name/components/x" -> <<"name", "components", "x">>
      [] OTHER -> <<key>>

\* int(s) succeeds
IsInt(s) == s \in {"0", "1", "2", "3", "5"}

\* the while loop of one patch entry, from jsobj on: the node as patched
RECURSIVE PatchAt(_, _, _)
PatchAt(jsobj, path, val) ==
    IF path = <<>> THEN Ok(jsobj)
    ELSE IF jsobj.t = "list"
    THEN IF ~IsInt(path[1]) THEN Raise("ValueError")
         ELSE IF IntOf(path[1]) >= Len(jsobj.kv) THEN Raise("ValueError")
         ELSE LET i == IntOf(path[1]) + 1
                  r == PatchAt(jsobj.kv[i][2], Tail(path), val)
              IN [raised |-> r.raised,
                  val |-> [jsobj EXCEPT !.kv[i] = <<"", r.val>>]]
    ELSE IF jsobj.t = "dict"
    THEN IF DictHas(jsobj.kv, path[1])
         THEN LET r == PatchAt(DictGet(jsobj.kv, path[1]), Tail(path), val)
              IN [raised |-> r.raised,
                  val |-> [jsobj EXCEPT !.kv = DictSet(@, path[1], r.val)]]
         ELSE IF Len(path) # 1 THEN Raise("ValueError")
         ELSE Ok([jsobj EXCEPT !.kv = DictSet(@, path[1], val)])
    ELSE Raise("TypeError")

\* for key, val in pobj.items(): the entries in order, up to the first raise
RECURSIVE PatchEntries(_, _, _)
PatchEntries(jscard, entries, i) ==
    IF i > Len(entries) THEN Ok(jscard)
    ELSE LET r == PatchAt(jscard, Split(entries[i][1]), entries[i][2])
         IN IF r.raised # "" THEN r ELSE PatchEntries(r.val, entries, i + 1)

apply_patchobject(jscard, pobj) ==
    IF pobj.t # "dict" THEN Raise("AttributeError")
    ELSE PatchEntries(jscard, pobj.kv, 1)

(***************************************************************************)
(* normalize_vcardparams                                                   *)
(***************************************************************************)

\* try: del jsobj["vCardParams"]["group"]; if not jsobj["vCardParams"]: del
\* jsobj["vCardParams"]; except KeyError: pass.  del on a list, str or scalar
\* raises TypeError.
DelGroup(jsobj) ==
    IF ~DictHas(jsobj.kv, "vCardParams") THEN Ok(jsobj)
    ELSE LET vp == DictGet(jsobj.kv, "vCardParams")
         IN IF vp.t # "dict" THEN Raise("TypeError")
            ELSE IF ~DictHas(vp.kv, "group") THEN Ok(jsobj)
            ELSE IF DictDel(vp.kv, "group") = <<>>
            THEN Ok([jsobj EXCEPT !.kv = DictDel(@, "vCardParams")])
            ELSE Ok([jsobj EXCEPT !.kv =
                        DictSet(@, "vCardParams",
                                [vp EXCEPT !.kv = DictDel(@, "group")])])

RECURSIVE normalize_vcardparams(_)
RECURSIVE VcardParamsInEach(_, _)
\* for jval in ...: normalize_vcardparams(jval)
VcardParamsInEach(kv, i) ==
    IF i > Len(kv) THEN [raised |-> "", kv |-> kv]
    ELSE LET r == normalize_vcardparams(kv[i][2])
         IN IF r.raised # "" THEN [raised |-> r.raised, kv |-> kv]
            ELSE VcardParamsInEach([kv EXCEPT ![i] = <<kv[i][1], r.val>>], i + 1)

normalize_vcardparams(jsobj) ==
    IF jsobj.t = "dict"
    THEN LET d == DelGroup(jsobj)
         IN IF d.raised # "" THEN d
            ELSE LET r == VcardParamsInEach(d.val.kv, 1)
                 IN [raised |-> r.raised, val |-> [d.val EXCEPT !.kv = r.kv]]
    ELSE IF jsobj.t = "list"
    THEN LET r == VcardParamsInEach(jsobj.kv, 1)
         IN [raised |-> r.raised, val |-> [jsobj EXCEPT !.kv = r.kv]]
    ELSE Ok(jsobj)

(***************************************************************************)
(* normalize_jscard, as a function of the card                             *)
(***************************************************************************)
default_values ==
    << [path |-> << "addresses", "*", "@type" >>, val |-> JStr("Address")],
       [path |-> << "addresses", "*", "isOrdered" >>, val |-> JBool(FALSE)],
       [path |-> << "addresses", "*", "components", "*", "@type" >>, val |-> JStr("AddressComponent")],
       [path |-> << "anniversaries", "*", "@type" >>, val |-> JStr("Anniversary")],
       [path |-> << "anniversaries", "*", "date", "@type" >>, val |-> JStr("PartialDate")],
       [path |-> << "anniversaries", "*", "place", "@type" >>, val |-> JStr("Address")],
       [path |-> << "calendars", "*", "@type" >>, val |-> JStr("Calendar")],
       [path |-> << "cryptoKeys", "*", "@type" >>, val |-> JStr("CryptoKey")],
       [path |-> << "directories", "*", "@type" >>, val |-> JStr("Directory")],
       [path |-> << "emails", "*", "@type" >>, val |-> JStr("EmailAddress")],
       [path |-> << "kind" >>, val |-> JStr("individual")],
       [path |-> << "links", "*", "@type" >>, val |-> JStr("Link")],
       [path |-> << "media", "*", "@type" >>, val |-> JStr("Media")],
       [path |-> << "name", "@type" >>, val |-> JStr("Name")],
       [path |-> << "name", "isOrdered" >>, val |-> JBool(FALSE)],
       [path |-> << "name", "components", "*", "@type" >>, val |-> JStr("NameComponent")],
       [path |-> << "nicknames", "*", "@type" >>, val |-> JStr("Nickname")],
       [path |-> << "notes", "*", "@type" >>, val |-> JStr("Note")],
       [path |-> << "notes", "*", "author", "@type" >>, val |-> JStr("Author")],
       [path |-> << "onlineServices", "*", "@type" >>, val |-> JStr("OnlineService")],
       [path |-> << "organizations", "*", "@type" >>, val |-> JStr("Organization")],
       [path |-> << "organizations", "*", "units", "*", "@type" >>, val |-> JStr("OrgUnit")],
       [path |-> << "personalInfo", "*", "@type" >>, val |-> JStr("PersonalInfo")],
       [path |-> << "phones", "*", "@type" >>, val |-> JStr("Phone")],
       [path |-> << "preferredLanguages", "*", "@type" >>, val |-> JStr("LanguagePref")],
       [path |-> << "relatedTo", "*", "@type" >>, val |-> JStr("Relation")],
       [path |-> << "schedulingAddresses", "*", "@type" >>, val |-> JStr("SchedulingAddress")],
       [path |-> << "speakToAs", "@type" >>, val |-> JStr("SpeakToAs")],
       [path |-> << "speakToAs", "pronouns", "*", "@type" >>, val |-> JStr("Pronouns")],
       [path |-> << "titles", "*", "@type" >>, val |-> JStr("Title")],
       [path |-> << "titles", "*", "kind" >>, val |-> JStr("title")] >>

\* for path, val in default_values.items(): remove_defaultval(jscard, path, val)
RECURSIVE RemoveDefaults(_, _)
RemoveDefaults(jscard, i) ==
    IF i > Len(default_values) THEN Ok(jscard)
    ELSE LET r == remove_defaultval(jscard, default_values[i].path,
                                    default_values[i].val)
         IN IF r.raised # "" THEN r ELSE RemoveDefaults(r.val, i + 1)

\* for id in jscard["addresses"].keys(): sort_unordered_components(...)
RECURSIVE SortAddresses(_, _)
SortAddresses(kv, i) ==
    IF i > Len(kv) THEN [raised |-> "", kv |-> kv]
    ELSE LET r == sort_unordered_components(kv[i][2])
         IN IF r.raised # "" THEN [raised |-> r.raised, kv |-> kv]
            ELSE SortAddresses([kv EXCEPT ![i] = <<kv[i][1], r.val>>], i + 1)

\* lines 112-116: only "name" and the values of "addresses" are sorted
SortNameAndAddresses(jscard) ==
    LET n == IF DictHas(jscard.kv, "name")
             THEN LET r == sort_unordered_components(DictGet(jscard.kv, "name"))
                  IN [raised |-> r.raised,
                      val |-> [jscard EXCEPT !.kv = DictSet(@, "name", r.val)]]
             ELSE Ok(jscard)
    IN IF n.raised # "" THEN n
       ELSE IF ~DictHas(n.val.kv, "addresses") THEN n
       ELSE LET addresses == DictGet(n.val.kv, "addresses")
            IN IF addresses.t # "dict" THEN Raise("AttributeError")
               ELSE LET r == SortAddresses(addresses.kv, 1)
                    IN [raised |-> r.raised,
                        val |-> [n.val EXCEPT !.kv =
                                    DictSet(@, "addresses",
                                            [addresses EXCEPT !.kv = r.kv])]]

\* p[0] != "version" for one entry p of vCardProps: "" when it holds,
\* "version" when it does not, else the exception p[0] raises
FirstIsVersion(p) ==
    CASE p.t = "list" ->
             IF p.kv = <<>> THEN "IndexError"
             ELSE IF PyEq(p.kv[1][2], JStr("version")) THEN "version" ELSE ""
      [] p.t = "str" -> IF p.s = "" THEN "IndexError" ELSE ""
      [] p.t = "dict" -> "KeyError"
      [] OTHER -> "TypeError"

\* lines 119-124.  Iterating a dict gives its keys; a str is outside the cards
\* of the model.
FilterVCardProps(jscard) ==
    IF ~DictHas(jscard.kv, "vCardProps") THEN Ok(jscard)
    ELSE LET vCardProps == DictGet(jscard.kv, "vCardProps")
             all == CASE vCardProps.t = "list" -> vCardProps.kv
                      [] vCardProps.t = "dict" ->
                             [i \in DOMAIN vCardProps.kv |->
                                 <<"", JStr(vCardProps.kv[i][1])>>]
                      [] vCardProps.t \in {"int", "bool", "None"} -> <<>>
             bad == {i \in DOMAIN all :
                        FirstIsVersion(all[i][2]) \notin {"", "version"}}
             props == SelectSeq(all, LAMBDA e : FirstIsVersion(e[2]) = "")
         IN IF vCardProps.t \in {"int", "bool", "None"} THEN Raise("TypeError")
            ELSE IF bad # {}
            THEN Raise(FirstIsVersion(all[CHOOSE i \in bad :
                                             \A j \in bad : i <= j][2]))
            ELSE IF props # <<>>
            THEN Ok([jscard EXCEPT !.kv =
                        DictSet(@, "vCardProps",
                                [t |-> "list", s |-> "", kv |-> props])])
            ELSE Ok([jscard EXCEPT !.kv = DictDel(@, "vCardProps")])

\* r, or what op makes of its value when r raised nothing
Then(r, op(_)) == IF r.raised # "" THEN r ELSE op(r.val)

RemoveAllDefaults(jscard) == RemoveDefaults(jscard, 1)

\* lines 109-125: the card without its localizations, normalized
NormalizeBase(jscard) ==
    Then(Then(Then(RemoveAllDefaults(jscard), SortNameAndAddresses),
              FilterVCardProps),
         normalize_vcardparams)

RECURSIVE normalize_jscard(_)
RECURSIVE ResolveLocales(_, _, _)

\* the entries of a patch object applied in order, a failing one left out
RECURSIVE PatchEntriesSkipping(_, _, _)
PatchEntriesSkipping(jscard, entries, i) ==
    IF i > Len(entries) THEN jscard
    ELSE LET r == PatchAt(jscard, Split(entries[i][1]), entries[i][2])
         IN PatchEntriesSkipping(IF r.raised # "" THEN jscard ELSE r.val,
                                 entries, i + 1)

\* ResolveLocale that drops the failing entries and resolves with the others
ResolveLocale_SkipFailing(jscard, pobj) ==
    normalize_jscard(PatchEntriesSkipping(jscard, pobj.kv, 1))

\* except ValueError: pass -- the locale keeps its patch object
KeepInvalid(pobj, r) == IF r.raised = "ValueError" THEN Ok(pobj) ELSE r

\* lines 131-137 for one locale: the value localizations[l] has afterwards
ResolveLocale(jscard, pobj) ==
    KeepInvalid(pobj, Then(apply_patchobject(jscard, pobj), normalize_jscard))

\* localizations[l] = r, and the locales after the i-th
StoreResolved(jscard, kv, i, r) ==
    IF r.raised # "" THEN [raised |-> r.raised, kv |-> kv]
    ELSE ResolveLocales(jscard, [kv EXCEPT ![i] = <<kv[i][1], r.val>>], i + 1)

\* for l in list(localizations.keys()), from the i-th locale on
ResolveLocales(jscard, kv, i) ==
    IF i > Len(kv) THEN [raised |-> "", kv |-> kv]
    ELSE StoreResolved(jscard, kv, i, ResolveLocale(jscard, kv[i][2]))

\* localizations = jscard.pop("localizations", None)
PoppedLocalizations(jscard) ==
    IF DictHas(jscard.kv, "localizations")
    THEN DictGet(jscard.kv, "localizations") ELSE JNone

WithoutLocalizations(jscard) == [jscard EXCEPT !.kv = DictDel(@, "localizations")]

\* jscard["localizations"] = localizations, with the locales as resolved in r
AttachResolved(jscard, localizations, r) ==
    IF r.raised # "" THEN Raise(r.raised)
    ELSE Ok([jscard EXCEPT !.kv =
                DictSet(@, "localizations", [localizations EXCEPT !.kv = r.kv])])

\* lines 129-138 on the normalized base card
Localize(jscard, localizations) ==
    IF ~Truthy(localizations) THEN Ok(jscard)
    ELSE IF localizations.t # "dict" THEN Raise("AttributeError")
    ELSE AttachResolved(jscard, localizations,
                        ResolveLocales(jscard, localizations.kv, 1))

\* lines 129-138 when lines 109-125 raised nothing
LocalizeIfOk(base, localizations) ==
    IF base.raised # "" THEN base ELSE Localize(base.val, localizations)

normalize_jscard(jscard) ==
    LocalizeIfOk(NormalizeBase(WithoutLocalizations(jscard)),
                 PoppedLocalizations(jscard))

(***************************************************************************)
(* Inputs of one match_vcard run                                           *)
(***************************************************************************)

\* most content properties of a record besides the header
MaxProps == 2

\* PropMatch patterns a scenario may declare
WantUniverse ==
    { PropMatch("TITLE", AnyValue, <<>>, TRUE, NoAltId, NoGroup),
      PropMatch("TITLE", Literal("a"), <<>>, FALSE, NoAltId, NoGroup),
      PropMatch("TITLE", AnyValue, <<>>, TRUE, AltIdMatch("k1", FALSE), NoGroup),
      PropMatch("TITLE", AnyValue, <<>>, TRUE, AltIdMatch("k2", TRUE), GroupStr("G1")),
      PropMatch("TITLE", AnyValue, <<>>, TRUE, NoAltId, GroupMatch("g1")),
      PropMatch("TITLE", AnyValue, <<>>, TRUE, AltIdMatch("k2", TRUE), GroupMatch("g2")) }

\* the pattern lists of the scenarios: none, one or two patterns
WantLists ==
    {<<>>} \cup {<<p>> : p \in WantUniverse}
        \cup {<<p, q>> : p \in WantUniverse, q \in WantUniverse}

\* properties the converter may emit besides the header
PropUniverse ==
    { Prop(None, "TITLE", <<>>, "a"),
      Prop(None, "TITLE", <<>>, "b"),
      Prop(None, "TITLE", <<Param("ALTID", "1")>>, "a"),
      Prop(None, "TITLE", <<Param("ALTID", "2")>>, "b"),
      Prop("G1", "TITLE", <<Param("ALTID", "1")>>, "a"),
      Prop(None, "X-FOO", <<>>, "bar") }

\* the properties every valid record carries, or none of them
Headers ==
    { <<>>,
      << Prop(None, "VERSION", <<>>, "4.0"),
         Prop(None, "FN", <<Param("DERIVED", "true")>>, "x"),
         Prop(None, "UID", <<>>, "u1") >> }

\* properties of a record whose order is compared: TITLE with two values, a
\* property with two parameters, a property without pattern
OrderPropUniverse ==
    { Prop(None, "TITLE", <<>>, "a"),
      Prop(None, "TITLE", <<>>, "b"),
      Prop(None, "JSPROP", <<Param("VALUE", "text"), Param("JSPTR", "version")>>,
           "\"1.0\""),
      Prop(None, "X-FOO", <<>>, "bar") }

SeqsUpTo(S, n) == UNION {[1..k -> S] : k \in 0..n}

Wrapped(content) ==
    <<Prop(None, "BEGIN", <<>>, "VCARD")>> \o content
        \o <<Prop(None, "END", <<>>, "VCARD")>>

\* parse(vcard): the records the loop may be given, with and without the
\* BEGIN/END wrapper
RecordsOver(universe) ==
    {Wrapped(h \o e) : h \in Headers, e \in SeqsUpTo(universe, MaxProps)}
        \cup {<<>>} \cup {<<p>> : p \in universe}

ParsedRecords == RecordsOver(PropUniverse)

(***************************************************************************)
(* match_vcard, step by step                                               *)
(***************************************************************************)
VARIABLES
    parsed,           \* props = parse(vcard)
    want_matches,     \* the caller's patterns
    props,            \* the normalized content properties
    matches_by_name,
    group_by_id,
    altid_by_id,
    match_errors,
    prop_i,           \* position of "for prop in props", from 1
    idx,              \* position of "for idx, pm in enumerate(matches)", from 1
    pc,
    raised,           \* "", "None" (returned), "ValueError", "VCardMatchError"
    accepted          \* history: <<prop_i, pid>> of every accepted candidate

\* normalize_jscard, step by step (Part 2)
VARIABLES
    card_in,          \* history: the card normalize_jscard was called on
    jscard,           \* the card as mutated so far
    localizations,    \* the popped localizations, JNone when there are none
    locale_i,         \* position of "for l in list(localizations.keys())"
    jpc,
    jraised           \* "", "None" (returned), or the exception that left

\* diff_objs, step by step (Part 2)
VARIABLES
    a_obj,            \* a, the expected dict
    b_obj,            \* b, the observed dict
    diffs,            \* the JSPropDiff appended so far, as a bag
    dpc

\* one call of a function of the value specs or of the parser
VARIABLES
    fn_self,          \* the object the method is called on, <<>> when none
    fn_arg,           \* the string passed, one character per element
    fn_ret,           \* what the call returned or raised
    fpc               \* "idle", the function about to be called, or "done"

\* TestCase.run and match_jscard, step by step
VARIABLES
    tc,               \* the TestCase: skip_to_vcard, skip_from_vcard,
                      \* invalid_props (whether the list is non-empty), matches
    heap,             \* the objects the run holds, by the place that made them
    refs,             \* the local names of run and match_jscard: the object
                      \* each is bound to
    result,           \* the Result
    calls,            \* the converter operations invoked so far
    mj_raised,        \* how match_jscard left: "", "None", or the exception
    mj_diffs,         \* diffs of match_jscard, as a bag
    rpc

\* invocations of match_vcard that share the caller's pattern list and the
\* module's default_matches
VARIABLES
    patterns,         \* the shared objects: objs the PropMatch objects, each
                      \* with its params list, want_list and default_list the
                      \* two lists, holding positions of objs
    invs,             \* per invocation: its position and its local variables
    given             \* the arguments as passed: want the pattern list,
                      \* records the parsed text of each invocation

vcardvars == << parsed, want_matches, props, matches_by_name, group_by_id,
                altid_by_id, match_errors, prop_i, idx, pc, raised, accepted >>

cardvars == << card_in, jscard, localizations, locale_i, jpc, jraised >>

diffvars == << a_obj, b_obj, diffs, dpc >>

fnvars == << fn_self, fn_arg, fn_ret, fpc >>

runvars == << tc, heap, refs, result, calls, mj_raised, mj_diffs, rpc >>

sharedvars == << patterns, invs, given >>

auxvars == << fnvars, runvars, sharedvars >>

jsvars == << cardvars, diffvars, auxvars >>

vars == << vcardvars, cardvars, diffvars, auxvars >>

\* no call of a single function
FnIdle ==
    /\ fn_self = <<>>
    /\ fn_arg = <<>>
    /\ fn_ret = <<>>
    /\ fpc = "idle"

\* the places objects are made at
Addrs == {"jprops", "jscard", "got_jscard", "want_card", "have_card", "vprops", "props"}

NoObjects ==
    [a \in Addrs |-> IF a \in {"vprops", "props"} THEN <<>> ELSE JNone]

NoRefs == [jscard |-> "", want_card |-> "", have_card |-> "", props |-> ""]

\* Result(test_name, sent_jscard) with the defaults of the dataclass
Result(sent_jscard) ==
    [sent_jscard |-> sent_jscard, to_vcard |-> "skipped", from_vcard |-> "skipped",
     got_vcard |-> <<>>, got_error |-> "", got_jscard |-> "",
     want_invalid_props |-> FALSE]

\* no TestCase.run and no match_jscard call
RunIdle ==
    /\ tc = <<>>
    /\ heap = NoObjects
    /\ refs = NoRefs
    /\ result = Result("")
    /\ calls = <<>>
    /\ mj_raised = ""
    /\ mj_diffs = EmptyBag
    /\ rpc = "idle"

\* no invocations of match_vcard on shared patterns
SharedIdle ==
    /\ patterns = <<>>
    /\ invs = <<>>
    /\ given = <<>>

AuxIdle == FnIdle /\ RunIdle /\ SharedIdle

\* no match_vcard run
VcardIdle ==
    /\ parsed = <<>>
    /\ want_matches = <<>>
    /\ props = <<>>
    /\ matches_by_name = <<>>
    /\ group_by_id = <<>>
    /\ altid_by_id = <<>>
    /\ match_errors = <<>>
    /\ prop_i = 0
    /\ idx = 0
    /\ pc = "idle"
    /\ raised = ""
    /\ accepted = <<>>

\* no normalize_jscard call
CardIdle ==
    /\ card_in = JNone
    /\ jscard = JNone
    /\ localizations = JNone
    /\ locale_i = 0
    /\ jpc = "idle"
    /\ jraised = ""

\* no diff_objs call
DiffIdle ==
    /\ a_obj = JNone
    /\ b_obj = JNone
    /\ diffs = EmptyBag
    /\ dpc = "idle"

InitWith(records, wants) ==
    /\ parsed \in records
    /\ want_matches \in wants
    /\ props = <<>>
    /\ matches_by_name = <<>>
    /\ group_by_id = <<>>
    /\ altid_by_id = <<>>
    /\ match_errors = <<>>
    /\ prop_i = 0
    /\ idx = 0
    /\ pc = "start"
    /\ raised = ""
    /\ accepted = <<>>
    /\ CardIdle
    /\ DiffIdle
    /\ AuxIdle

InitOn(records) == InitWith(records, WantLists)

Init == InitOn(ParsedRecords)

\* the runs on the records whose order is compared
InitOrder == InitOn(RecordsOver(OrderPropUniverse))

\* raise ValueError("Missing BEGIN or END")
RaiseMissing ==
    /\ pc = "start"
    /\ MissingBeginOrEnd(parsed)
    /\ raised' = "ValueError"
    /\ pc' = "done"
    /\ UNCHANGED << parsed, want_matches, props, matches_by_name, group_by_id,
                    altid_by_id, match_errors, prop_i, idx, accepted >>
    /\ UNCHANGED jsvars

\* normalize, strip BEGIN and END, build matches_by_name
Setup ==
    /\ pc = "start"
    /\ ~MissingBeginOrEnd(parsed)
    /\ props' = ContentProps(parsed)
    /\ matches_by_name' = InitialMatchesByName(want_matches)
    /\ prop_i' = 1
    /\ pc' = "loop"
    /\ UNCHANGED << parsed, want_matches, group_by_id, altid_by_id, match_errors,
                    idx, raised, accepted >>
    /\ UNCHANGED jsvars

\* matches is None: the unexpected diagnostic, continue
UnexpectedProp ==
    /\ pc = "loop"
    /\ prop_i <= Len(props)
    /\ ~DictHas(matches_by_name, props[prop_i].name)
    /\ match_errors' = Append(match_errors, PropMatchError_unexpected(props[prop_i]))
    /\ prop_i' = prop_i + 1
    /\ UNCHANGED << parsed, want_matches, props, matches_by_name, group_by_id,
                    altid_by_id, idx, pc, raised, accepted >>
    /\ UNCHANGED jsvars

\* matches found: enter the scan of the candidates
StartScan ==
    /\ pc = "loop"
    /\ prop_i <= Len(props)
    /\ DictHas(matches_by_name, props[prop_i].name)
    /\ idx' = 1
    /\ pc' = "scan"
    /\ UNCHANGED << parsed, want_matches, props, matches_by_name, group_by_id,
                    altid_by_id, match_errors, prop_i, raised, accepted >>
    /\ UNCHANGED jsvars

Matches == DictGet(matches_by_name, props[prop_i].name)

Tested == PropMatch_match(Matches[idx], props[prop_i], group_by_id, altid_by_id)

\* pm.match(...) returned False: next candidate
RejectCandidate ==
    /\ pc = "scan"
    /\ idx <= Len(Matches)
    /\ ~Tested.ok
    /\ group_by_id' = Tested.group_by_id
    /\ altid_by_id' = Tested.altid_by_id
    /\ idx' = idx + 1
    /\ UNCHANGED << parsed, want_matches, props, matches_by_name, match_errors,
                    prop_i, pc, raised, accepted >>
    /\ UNCHANGED jsvars

\* pm.match(...) returned True: break, del matches[pos], next property
AcceptCandidate ==
    /\ pc = "scan"
    /\ idx <= Len(Matches)
    /\ Tested.ok
    /\ group_by_id' = Tested.group_by_id
    /\ altid_by_id' = Tested.altid_by_id
    /\ matches_by_name' = ConsumeMatch(matches_by_name, props[prop_i].name, idx)
    /\ accepted' = Append(accepted, <<prop_i, Matches[idx].pid>>)
    /\ prop_i' = prop_i + 1
    /\ idx' = 0
    /\ pc' = "loop"
    /\ UNCHANGED << parsed, want_matches, props, match_errors, raised >>
    /\ UNCHANGED jsvars

\* pos == -1: the mismatched diagnostic, continue
MismatchedProp ==
    /\ pc = "scan"
    /\ idx > Len(Matches)
    /\ match_errors' =
           Append(match_errors, PropMatchError_mismatched(props[prop_i], Matches))
    /\ prop_i' = prop_i + 1
    /\ idx' = 0
    /\ pc' = "loop"
    /\ UNCHANGED << parsed, want_matches, props, matches_by_name, group_by_id,
                    altid_by_id, raised, accepted >>
    /\ UNCHANGED jsvars

\* after the loop: the unmatched diagnostic, then raise or return
Finish ==
    /\ pc = "loop"
    /\ prop_i > Len(props)
    /\ match_errors' = FinalErrors(match_errors, matches_by_name)
    /\ raised' = Raises(match_errors')
    /\ pc' = "done"
    /\ UNCHANGED << parsed, want_matches, props, matches_by_name, group_by_id,
                    altid_by_id, prop_i, idx, accepted >>
    /\ UNCHANGED jsvars

Next ==
    \/ RaiseMissing
    \/ Setup
    \/ UnexpectedProp
    \/ StartScan
    \/ RejectCandidate
    \/ AcceptCandidate
    \/ MismatchedProp
    \/ Finish

Spec == Init /\ [][Next]_vars

SpecOrder == InitOrder /\ [][Next]_vars

\* the step-by-step run ends as the function RunLoop says
StepsAgreeWithRunLoop ==
    pc = "done" /\ raised # "ValueError" =>
        LET r == RunLoop(props, want_matches)
        IN /\ r.raised = raised
           /\ r.match_errors = match_errors
           /\ r.group_by_id = group_by_id
           /\ r.altid_by_id = altid_by_id
           /\ r.matches_by_name = matches_by_name

(***************************************************************************)
(* Properties of the symbolic bindings                                     *)
(***************************************************************************)

\* the candidate under test and the property it is tested against
AtTest == pc = "scan" /\ idx <= Len(Matches)

InjectiveDict(d) == \A i, j \in DOMAIN d : d[i][2] = d[j][2] => i = j

\* C1: in every reachable state of a run the ALTID table and the group table
\* are injective: no two symbolic ids are bound to the same value.
C1_BindingsInjective == InjectiveDict(altid_by_id) /\ InjectiveDict(group_by_id)

\* two ALTID ids are bound and a group id is bound
C1_Witness == Len(altid_by_id) = 2 /\ Len(group_by_id) >= 1 /\ pc = "done"

HasAltId(prop, value) ==
    \E i \in DOMAIN prop.params :
        prop.params[i].name = "ALTID" /\ prop.params[i].value = value

\* two patterns with distinct ALTID ids, and two properties of the record
\* that carry the same ALTID value, each accepted by its own pattern when it
\* is matched alone
TwoIdsOneValue ==
    /\ Len(want_matches) = 2
    /\ want_matches[1].alt_id.set /\ want_matches[2].alt_id.set
    /\ want_matches[1].alt_id.id # want_matches[2].alt_id.id
    /\ \E i, j \in DOMAIN props : \E v \in {"1", "2"} :
          /\ i # j
          /\ HasAltId(props[i], v) /\ HasAltId(props[j], v)
          /\ PropMatch_match(want_matches[1], props[i], <<>>, <<>>).ok
          /\ PropMatch_match(want_matches[2], props[j], <<>>, <<>>).ok

\* C2: with two patterns of distinct ALTID ids and two properties that carry
\* the same ALTID value, the run fails.
C2_SameAltIdTwoIdsFails ==
    pc = "done" /\ raised # "ValueError" /\ TwoIdsOneValue => raised = "VCardMatchError"

C2_Witness == pc = "done" /\ raised = "VCardMatchError" /\ TwoIdsOneValue

\* C3: a candidate that rejects the property leaves both binding tables as
\* they were before the test.
C3_RejectKeepsBindings ==
    AtTest /\ ~Tested.ok =>
        Tested.altid_by_id = altid_by_id /\ Tested.group_by_id = group_by_id

\* every binding of d is still in e, with the same value
Preserved(d, e) == \A i \in DOMAIN d : DictHas(e, d[i][1]) /\ DictGet(e, d[i][1]) = d[i][2]

\* the property under test carries the value bound to the ALTID id of the
\* candidate, if that id is bound
CarriesBoundAltId ==
    LET pm == Matches[idx]
        altid_params == AltIdParams(props[prop_i])
    IN pm.alt_id.set /\ DictHas(altid_by_id, pm.alt_id.id) =>
           /\ Len(altid_params) = 1
           /\ altid_params[1].value = DictGet(altid_by_id, pm.alt_id.id)

\* the same, but for a property without ALTID under a non-mandatory AltIdMatch
CarriesBoundAltIdOrOptional ==
    LET pm == Matches[idx]
        altid_params == AltIdParams(props[prop_i])
    IN pm.alt_id.set /\ DictHas(altid_by_id, pm.alt_id.id) =>
           \/ /\ Len(altid_params) = 1
              /\ altid_params[1].value = DictGet(altid_by_id, pm.alt_id.id)
           \/ altid_params = <<>> /\ ~pm.alt_id.mandatory

CarriesBoundGroup ==
    LET pm == Matches[idx]
    IN pm.group.kind = "GroupMatch" /\ DictHas(group_by_id, pm.group.v) =>
           props[prop_i].group = DictGet(group_by_id, pm.group.v)

\* C4 as claimed: a binding, once made, is never changed or removed, and every
\* property accepted later by a pattern of that id carries the bound value.
C4_BindOnceAlwaysCarried ==
    [][ /\ Preserved(altid_by_id, altid_by_id')
        /\ Preserved(group_by_id, group_by_id')
        /\ (AtTest /\ Tested.ok => CarriesBoundAltId /\ CarriesBoundGroup) ]_vars

\* C4 as amended: the same, except that a property without ALTID parameter is
\* accepted by a pattern whose AltIdMatch is not mandatory.
C4_BindOnce ==
    [][ /\ Preserved(altid_by_id, altid_by_id')
        /\ Preserved(group_by_id, group_by_id')
        /\ (AtTest /\ Tested.ok => CarriesBoundAltIdOrOptional /\ CarriesBoundGroup)
      ]_vars

\* a candidate whose ALTID id is already bound accepts a property that
\* carries the bound value
C4_Witness ==
    /\ AtTest /\ Tested.ok
    /\ Matches[idx].alt_id.set
    /\ DictHas(altid_by_id, Matches[idx].alt_id.id)
    /\ AltIdParams(props[prop_i]) # <<>>

\* C5: a candidate with a symbolic GroupMatch rejects a property that has no
\* group, and binds nothing for it.
C5_GroupRefRejectsGroupless ==
    AtTest /\ Matches[idx].group.kind = "GroupMatch" /\ props[prop_i].group = None =>
        ~Tested.ok /\ Tested.group_by_id = group_by_id

(***************************************************************************)
(* ALTID parameters under a pattern without AltIdMatch                     *)
(***************************************************************************)

\* the property with its ALTID parameters replaced by the given ones
WithAltIds(prop, altids) ==
    [prop EXCEPT !.params =
        SelectSeq(prop.params, LAMBDA p : p.name # "ALTID")
            \o [i \in DOMAIN altids |-> Param("ALTID", altids[i])]]

AltIdValues == {"1", "2"}

SingleAltIds == {<<>>} \cup {<<v>> : v \in AltIdValues}

DoubleAltIds == {<<v, w>> : v \in AltIdValues, w \in AltIdValues}

\* C6 as claimed: under a candidate without AltIdMatch, adding, removing,
\* duplicating or changing ALTID parameters changes neither the verdict nor
\* the tables.
C6_AltIdIgnored ==
    AtTest /\ ~Matches[idx].alt_id.set =>
        \A altids \in SingleAltIds \cup DoubleAltIds :
            PropMatch_match(Matches[idx], WithAltIds(props[prop_i], altids),
                            group_by_id, altid_by_id) = Tested

\* C6 as amended: that holds as long as the property carries at most one
\* ALTID parameter; a property with two or more is rejected by every
\* candidate, with the tables unchanged.
C6_SingleAltIdIgnored ==
    AtTest =>
        /\ ~Matches[idx].alt_id.set =>
              \A altids \in SingleAltIds :
                  PropMatch_match(Matches[idx], WithAltIds(props[prop_i], altids),
                                  group_by_id, altid_by_id) = Tested
        /\ \A altids \in DoubleAltIds :
              PropMatch_match(Matches[idx], WithAltIds(props[prop_i], altids),
                              group_by_id, altid_by_id)
                  = [ok |-> FALSE, group_by_id |-> group_by_id,
                     altid_by_id |-> altid_by_id]

\* a candidate without AltIdMatch accepts a property that carries an ALTID
C6_Witness ==
    AtTest /\ ~Matches[idx].alt_id.set /\ Tested.ok
        /\ AltIdParams(props[prop_i]) # <<>>

(***************************************************************************)
(* Properties of the whole run                                             *)
(***************************************************************************)
Ended == pc = "done" /\ raised # "ValueError"

\* all orders of a list
RECURSIVE Perms(_)
Perms(l) ==
    IF l = <<>> THEN {<<>>}
    ELSE UNION {{<<l[i]>> \o q : q \in Perms(ListDel(l, i))} : i \in DOMAIN l}

Reversed(l) == [i \in DOMAIN l |-> l[Len(l) + 1 - i]]

\* the record with the parameters of every property in the opposite order
ParamsReversed(l) == [i \in DOMAIN l |-> [l[i] EXCEPT !.params = Reversed(@)]]

DistinctNames(l) == \A i, j \in DOMAIN l : l[i].name = l[j].name => i = j

\* every property name has at most one candidate, no pattern has two
\* ParamMatch of one name, and no pattern declares a symbolic id
OneCandidatePerName ==
    LET d == InitialMatchesByName(want_matches)
    IN \A k \in DOMAIN d :
          /\ Len(d[k][2]) = 1
          /\ DistinctNames(d[k][2][1].params)
          /\ ~d[k][2][1].alt_id.set
          /\ d[k][2][1].group.kind # "GroupMatch"

Refused == {i \in DOMAIN props : \A k \in DOMAIN accepted : accepted[k][1] # i}

RefusedProps ==
    LET positions == SelectSeq([i \in DOMAIN props |-> i], LAMBDA i : i \in Refused)
    IN [k \in DOMAIN positions |-> <<props[positions[k]]>>]

\* C8: the run raises VCardMatchError iff a diagnostic was recorded; the
\* error carries one diagnostic per property that was unexpected or
\* mismatched, in order, then the unmatched report if mandatory patterns are
\* left; every property is processed.
C8_AllDiagnostics ==
    Ended =>
        LET perProp == SelectSeq(match_errors, LAMBDA e : e.kind # "unmatched")
            report == SelectSeq(match_errors, LAMBDA e : e.kind = "unmatched")
        IN /\ raised = "VCardMatchError" <=> match_errors # <<>>
           /\ raised = "None" <=> match_errors = <<>>
           /\ prop_i = Len(props) + 1
           /\ [k \in DOMAIN perProp |-> perProp[k].prop] = RefusedProps
           /\ match_errors = perProp \o report
           /\ Len(report) <= 1
           /\ report # <<>> <=>
                  \E k \in DOMAIN matches_by_name :
                      \E i \in DOMAIN matches_by_name[k][2] :
                          matches_by_name[k][2][i].mandatory

\* an unexpected property, a mismatched one and unmatched patterns in one run
C8_Witness ==
    /\ Ended
    /\ \E i, j, k \in DOMAIN match_errors :
          /\ match_errors[i].kind = "unexpected"
          /\ match_errors[j].kind = "mismatched"
          /\ match_errors[k].kind = "unmatched"

\* the candidates of the run, as the loop starts
AllCandidates ==
    LET d == InitialMatchesByName(want_matches)
    IN Flatten([k \in DOMAIN d |-> d[k][2]])

Consumed == {accepted[k][2] : k \in DOMAIN accepted}

NeverConsumedMandatory ==
    LET all == AllCandidates
        consumed == Consumed
    IN {all[i].pid : i \in {j \in DOMAIN all :
           all[j].mandatory /\ all[j].pid \notin consumed}}

Reported ==
    IF match_errors # <<>> /\ match_errors[Len(match_errors)].kind = "unmatched"
    THEN match_errors[Len(match_errors)].candidates
    ELSE <<>>

\* C9: the patterns reported as unmatched are exactly the candidates, of the
\* caller or default, that no property consumed and that are mandatory; a run
\* that leaves only non-mandatory patterns and refused no property succeeds.
C9_UnmatchedAreMandatoryLeft ==
    Ended =>
        LET left == NeverConsumedMandatory
            reported == Reported
        IN /\ {reported[i].pid : i \in DOMAIN reported} = left
           /\ Len(reported) = Cardinality(left)
           /\ (left = {} /\ Refused = {} => raised = "None")

\* a run succeeds and leaves a non-mandatory pattern of the caller unconsumed
C9_Witness ==
    /\ Ended /\ raised = "None"
    /\ \E i \in DOMAIN want_matches : ~want_matches[i].mandatory /\ i \notin Consumed

NoPatternFor(prop) == prop.name \notin DictKeys(InitialMatchesByName(want_matches))

\* C10: a property whose name has no pattern of the caller and no default
\* pattern adds exactly one diagnostic, of kind unexpected, to those of the
\* record without it, and leaves candidate lists and bindings as the record
\* without it leaves them; if the record without it matches, that diagnostic
\* is the only one.
C10_UnexpectedProperty ==
    Ended =>
        \A i \in DOMAIN props :
            NoPatternFor(props[i]) =>
                LET r == RunLoop(ListDel(props, i), want_matches)
                    diag == [kind |-> "unexpected", prop |-> <<props[i]>>,
                             candidates |-> <<>>]
                IN /\ \E k \in DOMAIN match_errors :
                         /\ match_errors[k] = diag
                         /\ ListDel(match_errors, k) = r.match_errors
                   /\ matches_by_name = r.matches_by_name
                   /\ group_by_id = r.group_by_id
                   /\ altid_by_id = r.altid_by_id
                   /\ (r.raised = "None" => match_errors = <<diag>>)

\* a record that matches but for one property without pattern
C10_Witness ==
    /\ Ended
    /\ Len(match_errors) = 1 /\ match_errors[1].kind = "unexpected"
    /\ NoPatternFor(match_errors[1].prop[1])
    /\ Len(accepted) >= 4

(***************************************************************************)
(* The runs on the record of the identifier scenario                       *)
(***************************************************************************)

\* most content properties of a record of the identifier scenario
MaxUidProps == 3

\* the header properties a converter emits, the identifier, and a property
\* without pattern
UidPropUniverse ==
    { Prop(None, "VERSION", <<>>, "4.0"),
      Prop(None, "FN", <<>>, "x"),
      Prop(None, "UID", <<>>, "hello@example.com"),
      Prop(None, "X-FOO", <<>>, "bar") }

UidPattern == PropMatch("UID", AnyValue, <<>>, TRUE, NoAltId, NoGroup)

\* the scenario's pattern list, one that refuses the identifier, and none
UidWantLists ==
    { <<UidPattern>>,
      <<PropMatch("UID", Literal("u1"), <<>>, TRUE, NoAltId, NoGroup)>>,
      <<>> }

UidRecords ==
    {Wrapped(e) : e \in SeqsUpTo(UidPropUniverse, MaxUidProps)}
        \cup {<<p>> : p \in UidPropUniverse}

InitUid == InitWith(UidRecords, UidWantLists)

SpecUid == InitUid /\ [][Next]_vars

UidProp == Prop(None, "UID", <<>>, "hello@example.com")

\* the run on the scenario's pattern list has ended
UidRunEnded == pc = "done" /\ want_matches = <<UidPattern>>

\* the content properties of the record, as a set
ContentSet == {parsed[i] : i \in 2..(Len(parsed) - 1)}

\* C11 (as stated): the record whose only content property is
\* UID:hello@example.com, matched against PropMatch("UID", Any) and the baseline
\* patterns, succeeds with zero diagnostics.
C11_UidOnlySucceeds ==
    UidRunEnded /\ parsed = Wrapped(<<UidProp>>) =>
        raised = "None" /\ match_errors = <<>>

\* C11 (amended): the record whose content properties are VERSION:4.0, one FN
\* and UID:hello@example.com, in any order, succeeds with zero diagnostics; the
\* record with the UID alone ends with the single unmatched diagnostic that
\* lists the baseline patterns VERSION and FN.
C11_UidWithHeaderSucceeds ==
    /\ UidRunEnded /\ Len(parsed) = 5
          /\ ContentSet = UidPropUniverse \ {Prop(None, "X-FOO", <<>>, "bar")} =>
            raised = "None" /\ match_errors = <<>>
    /\ UidRunEnded /\ parsed = Wrapped(<<UidProp>>) =>
          /\ raised = "VCardMatchError"
          /\ Len(match_errors) = 1
          /\ match_errors[1].kind = "unmatched"
          /\ {match_errors[1].candidates[i].name :
                    i \in DOMAIN match_errors[1].candidates} = {"VERSION", "FN"}

C11_Witness ==
    /\ UidRunEnded
    /\ parsed = Wrapped(<< UidProp, Prop(None, "FN", <<>>, "x"),
                           Prop(None, "VERSION", <<>>, "4.0") >>)
    /\ Len(accepted) = 3

(***************************************************************************)
(* The runs on records with BEGIN and END at any position                  *)
(***************************************************************************)

\* most properties of a parsed record, BEGIN and END included
MaxCanonProps == 3

\* BEGIN, END, a name that sorts between them, and two properties equal in
\* name and value of which one carries unsorted parameters
CanonPropUniverse ==
    { Prop(None, "BEGIN", <<>>, "VCARD"),
      Prop(None, "END", <<>>, "VCARD"),
      Prop(None, "EMAIL", <<>>, "a"),
      Prop(None, "TITLE", <<>>, "b"),
      Prop("G1", "TITLE", <<Param("VALUE", "text"), Param("ALTID", "1")>>, "b") }

CanonWantLists ==
    { <<PropMatch("TITLE", AnyValue, <<>>, TRUE, NoAltId, NoGroup)>>,
      <<PropMatch("TITLE", Literal("a"), <<>>, FALSE, NoAltId, NoGroup)>> }

\* parse(vcard) of any lines: the wrapper may be missing, doubled or misplaced
CanonRecords == SeqsUpTo(CanonPropUniverse, MaxCanonProps)

InitCanon == InitWith(CanonRecords, CanonWantLists)

SpecCanon == InitCanon /\ [][Next]_vars

\* C12: for every parsed record, with or without the BEGIN/END wrapper,
\* normalize_vcard(normalize_vcard(R)) = normalize_vcard(R).
C12_NormalizeVcardIdempotent ==
    normalize_vcard(normalize_vcard(parsed)) = normalize_vcard(parsed)

\* a wrapped record whose content normalization changes, normalized by the run
C12_Witness ==
    /\ pc = "loop"
    /\ Len(parsed) = 3
    /\ normalize_vcard(parsed) # parsed
    /\ props = SubSeq(normalize_vcard(parsed), 2, 2)

(***************************************************************************)
(* Part 2: normalize_jscard, step by step                                  *)
(***************************************************************************)

\* one step of the body: the exception leaves the call, else the card goes on
StepTo(r, next) ==
    IF r.raised # ""
    THEN /\ jraised' = r.raised
         /\ jpc' = "done"
         /\ UNCHANGED jscard
    ELSE /\ jscard' = r.val
         /\ jpc' = next
         /\ UNCHANGED jraised

\* localizations = jscard.pop("localizations", None)
PopLocalizations ==
    /\ jpc = "start"
    /\ localizations' = PoppedLocalizations(jscard)
    /\ jscard' = WithoutLocalizations(jscard)
    /\ jpc' = "defaults"
    /\ UNCHANGED << card_in, locale_i, jraised, vcardvars, diffvars, auxvars >>

\* for path, val in default_values.items(): remove_defaultval(...)
RemoveDefaultValues ==
    /\ jpc = "defaults"
    /\ StepTo(RemoveAllDefaults(jscard), "components")
    /\ UNCHANGED << card_in, localizations, locale_i, vcardvars, diffvars, auxvars >>

\* sort_unordered_components on name and on the addresses
SortComponents ==
    /\ jpc = "components"
    /\ StepTo(SortNameAndAddresses(jscard), "vCardProps")
    /\ UNCHANGED << card_in, localizations, locale_i, vcardvars, diffvars, auxvars >>

\* drop the version entries of vCardProps
FilterProps ==
    /\ jpc = "vCardProps"
    /\ StepTo(FilterVCardProps(jscard), "vCardParams")
    /\ UNCHANGED << card_in, localizations, locale_i, vcardvars, diffvars, auxvars >>

\* normalize_vcardparams(jscard), then "if localizations:" and the keys()
NormalizeParams ==
    /\ jpc = "vCardParams"
    /\ LET r == normalize_vcardparams(jscard)
       IN IF r.raised # ""
          THEN /\ jraised' = r.raised
               /\ jpc' = "done"
               /\ UNCHANGED << jscard, locale_i >>
          ELSE /\ jscard' = r.val
               /\ IF ~Truthy(localizations)
                  THEN jraised' = "None" /\ jpc' = "done" /\ UNCHANGED locale_i
                  ELSE IF localizations.t # "dict"
                  THEN /\ jraised' = "AttributeError"
                       /\ jpc' = "done"
                       /\ UNCHANGED locale_i
                  ELSE jpc' = "locales" /\ locale_i' = 1 /\ UNCHANGED jraised
    /\ UNCHANGED << card_in, localizations, vcardvars, diffvars, auxvars >>

\* localizations[l] = r, or the exception leaves normalize_jscard
StoreLocale(r) ==
    IF r.raised # ""
    THEN /\ jraised' = r.raised
         /\ jpc' = "done"
         /\ UNCHANGED << localizations, locale_i >>
    ELSE /\ localizations' =
                [localizations EXCEPT !.kv[locale_i] = <<@[1], r.val>>]
         /\ locale_i' = locale_i + 1
         /\ UNCHANGED << jpc, jraised >>

\* one pass of the loop over the locales: lines 131-137
ResolveNextLocale ==
    /\ jpc = "locales"
    /\ locale_i <= Len(localizations.kv)
    /\ StoreLocale(ResolveLocale(jscard, localizations.kv[locale_i][2]))
    /\ UNCHANGED << card_in, jscard, vcardvars, diffvars, auxvars >>

\* jscard["localizations"] = localizations, and return
AttachLocalizations ==
    /\ jpc = "locales"
    /\ locale_i > Len(localizations.kv)
    /\ jscard' = [jscard EXCEPT !.kv = DictSet(@, "localizations", localizations)]
    /\ jraised' = "None"
    /\ jpc' = "done"
    /\ UNCHANGED << card_in, localizations, locale_i, vcardvars, diffvars, auxvars >>

NextCard ==
    \/ PopLocalizations
    \/ RemoveDefaultValues
    \/ SortComponents
    \/ FilterProps
    \/ NormalizeParams
    \/ ResolveNextLocale
    \/ AttachLocalizations

\* normalize_jscard(card) is called on one of the cards
InitCardOn(cards) ==
    /\ card_in \in cards
    /\ jscard = card_in
    /\ localizations = JNone
    /\ locale_i = 0
    /\ jpc = "start"
    /\ jraised = ""
    /\ VcardIdle
    /\ DiffIdle
    /\ AuxIdle

\* the step-by-step call ends as the function normalize_jscard says
CardStepsAgree ==
    jpc = "done" =>
        LET r == normalize_jscard(card_in)
        IN IF r.raised = "" THEN jraised = "None" /\ jscard = r.val
           ELSE jraised = r.raised

(***************************************************************************)
(* Cards with defaults, components and one localization                    *)
(***************************************************************************)

\* most components of a name
MaxComponents == 2

Entry(key, val) == << <<key, val>> >>

CompA == JDict(Entry("value", JStr("a")))

CompB == JDict(Entry("value", JStr("b")))

\* states the default @type of a name component
CompT == JDict(Entry("@type", JStr("NameComponent")) \o Entry("value", JStr("a")))

\* two keys, not in sorted order
CompK == JDict(Entry("value", JStr("b")) \o Entry("kind", JStr("given")))

ComponentUniverse == {CompA, CompB, CompT, CompK}

IsOrderedOptions ==
    {<<>>, Entry("isOrdered", JBool(FALSE)), Entry("isOrdered", JBool(TRUE))}

KindOptions == {<<>>, Entry("kind", JStr("individual")), Entry("kind", JStr("group"))}

NameOptions ==
    {<<>>} \cup
    { Entry("name", JDict(o \o Entry("components", JList(c)))) :
        o \in IsOrderedOptions, c \in SeqsUpTo(ComponentUniverse, MaxComponents) }

\* an address that states its defaults, with unsorted components
AddressesOptions ==
    { <<>>,
      Entry("addresses",
            JDict(Entry("k1", JDict(Entry("@type", JStr("Address"))
                                      \o Entry("isOrdered", JBool(FALSE))
                                      \o Entry("components",
                                               JList(<<CompB, CompA>>)))))) }

\* an anniversary whose place is an address with unsorted components
AnniversariesOptions ==
    { <<>>,
      Entry("anniversaries",
            JDict(Entry("k", JDict(Entry("place",
                JDict(Entry("components", JList(<<CompB, CompA>>)))))))) }

\* one locale whose patch states a default
OneLocaleOptions ==
    { <<>>,
      Entry("localizations",
            JDict(Entry("x", JDict(Entry("kind", JStr("individual")))))) }

CardUniverse ==
    { JDict(k \o n \o a \o an \o l) :
        k \in KindOptions, n \in NameOptions, a \in AddressesOptions,
        an \in AnniversariesOptions, l \in OneLocaleOptions }

InitCard == InitCardOn(CardUniverse)

SpecCard == InitCard /\ [][NextCard]_vars

(***************************************************************************)
(* Cards with localization patches                                         *)
(***************************************************************************)

\* most entries of one patch object
MaxPatchEntries == 2

\* patch entries: an existing leaf, a new nested key, a new top-level key, a
\* missing intermediate key, a path through a str, a list index out of range,
\* a list index that is no number, a path through a bool
PatchEntryUniverse ==
    { <<"name/full", JStr("B")>>,
      <<"name/given", JStr("G")>>,
      <<"kind", JStr("group")>>,
      <<"name/zz/z", JStr("B")>>,
      <<"name/full/z", JStr("B")>>,
      <<"name/components/5/value", JStr("q")>>,
      <<"name/components/x", JStr("q")>>,
      <<"name/isOrdered/z", JStr("B")>> }

\* patch objects: the entries in the order of the dict, no key twice
PatchObjects ==
    { JDict(e) : e \in { f \in SeqsUpTo(PatchEntryUniverse, MaxPatchEntries) :
                            \A i, j \in DOMAIN f : f[i][1] = f[j][1] => i = j } }

\* the cards that are patched: a name, and a name with an ordered list
PatchBases ==
    { Entry("name", JDict(Entry("full", JStr("A")))),
      Entry("name", JDict(Entry("full", JStr("A"))
                            \o Entry("isOrdered", JBool(TRUE))
                            \o Entry("components", JList(<<CompB, CompA>>)))) }

\* one locale, or a second one after it whose patch applies
PatchedCards ==
    { JDict(b \o Entry("localizations", JDict(Entry("x", p) \o y))) :
        b \in PatchBases, p \in PatchObjects,
        y \in {<<>>, Entry("y", JDict(Entry("kind", JStr("group"))))} }

InitPatch == InitCardOn(PatchedCards)

SpecPatch == InitPatch /\ [][NextCard]_vars

(***************************************************************************)
(* Properties of the localizations                                         *)
(***************************************************************************)

\* normalize_jscard has returned
Returned == jpc = "done" /\ jraised = "None"

\* the value of locale l in a card
Locale(card, l) == DictGet(DictGet(card.kv, "localizations").kv, l)

HasLocale(card, l) ==
    /\ DictHas(card.kv, "localizations")
    /\ DictHas(DictGet(card.kv, "localizations").kv, l)

\* C13: for every card, normalize(normalize(C)) == normalize(C), also when the
\* patches of its localizations create nested keys.
C13_NormalizeJscardIdempotent ==
    Returned =>
        LET again == normalize_jscard(jscard)
        IN again.raised = "" /\ PyEq(again.val, jscard)

NameFullCard(full) == JDict(Entry("name", JDict(Entry("full", JStr(full)))))

\* the card {"name": {"full": "A"}, "localizations": {"x": {"name/full": "B"}}}
ReplaceExample ==
    JDict(Entry("name", JDict(Entry("full", JStr("A"))))
            \o Entry("localizations",
                     JDict(Entry("x", JDict(Entry("name/full", JStr("B")))))))

\* C14: the card {"name": {"full": "A"}} with localizations {"x": {"name/full":
\* "B"}} normalizes to a card whose locale x is {"name": {"full": "B"}}; a patch
\* entry whose path names an existing leaf sets that leaf to the patch value.
C14_PatchSetsExistingLeaf ==
    /\ Returned /\ card_in = ReplaceExample =>
           PyEq(Locale(jscard, "x"), NameFullCard("B"))
    /\ Returned /\ DictHas(Locale(card_in, "x").kv, "name/full")
                /\ DictHas(Locale(jscard, "x").kv, "name") =>
           PyEq(DictGet(DictGet(Locale(jscard, "x").kv, "name").kv, "full"),
                DictGet(Locale(card_in, "x").kv, "name/full"))

\* C15: no failure of a patch is escalated: normalize_jscard returns for every
\* card and every patch object, whatever its paths descend through.
C15_PatchFailureNotEscalated == jpc = "done" => jraised = "None"

\* entry i of the patch object fails on the card, taken alone
EntryFails(card, pobj, i) ==
    PatchAt(card, Split(pobj.kv[i][1]), pobj.kv[i][2]).raised # ""

\* C16 (as stated): when a patch object of several entries has one that fails,
\* the other entries are applied and the locale is stored as the resolved,
\* normalized card without the failing entry, not as the raw patch object.
C16_FailingEntryDropped ==
    Returned =>
        LET pobj == Locale(card_in, "x")
            base == WithoutLocalizations(jscard)
        IN Len(pobj.kv) >= 2 /\ (\E i \in DOMAIN pobj.kv : EntryFails(base, pobj, i)) =>
               PyEq(Locale(jscard, "x"), ResolveLocale_SkipFailing(base, pobj).val)

\* the loop over the locales is past the i-th locale
PastLocale(i) == jpc = "locales" /\ locale_i > i

\* C16 (amended): when the application of a patch object stops at an entry
\* with a missing intermediate key or a list index that is no number or out of
\* range, the whole patch object is given up: none of its entries is applied,
\* the locale keeps the raw patch object and the loop goes on to the next
\* locale.
C16_FailingPatchKeptRaw ==
    PastLocale(1) /\ apply_patchobject(jscard, Locale(card_in, "x")).raised = "ValueError" =>
        localizations.kv[1] = <<"x", Locale(card_in, "x")>>

\* a patch object whose second entry fails after the first one applied; the
\* second locale is resolved
C16_Witness ==
    /\ Returned
    /\ Locale(card_in, "x") = JDict(Entry("name/given", JStr("G"))
                                      \o Entry("name/zz/z", JStr("B")))
    /\ Locale(jscard, "x") = Locale(card_in, "x")
    /\ HasLocale(jscard, "y")
    /\ DictHas(Locale(jscard, "y").kv, "name")

(***************************************************************************)
(* Properties of the default values and of the components                  *)
(***************************************************************************)

\* a path of the default-value table covers the path p of a leaf
Covers(pattern, p) ==
    /\ Len(pattern) = Len(p)
    /\ \A i \in DOMAIN p : pattern[i] = p[i] \/ (pattern[i] = "*" /\ i < Len(p))

\* the table gives the value v as the default of the leaf at path p
IsDefaultAt(p, v) ==
    \E i \in DOMAIN default_values :
        Covers(default_values[i].path, p) /\ PyEq(v, default_values[i].val)

\* the value v, found at path p of a card, without the entries of its maps
\* that state a default of the table
RECURSIVE WithoutDefaults(_, _)
WithoutDefaults(v, p) ==
    IF v.t \notin {"dict", "list"} THEN v
    ELSE LET Stays(e) == ~(v.t = "dict" /\ IsDefaultAt(Append(p, e[1]), e[2]))
             kept == SelectSeq(v.kv, Stays)
         IN [v EXCEPT !.kv = [i \in DOMAIN kept |->
                 <<kept[i][1], WithoutDefaults(kept[i][2], Append(p, kept[i][1]))>>]]

\* C17: normalizing removes a leaf at a path of the default-value table exactly
\* when its value equals the default of that path; kind "individual" is
\* dropped and kind "group" is kept; a card and the card that omits the
\* defaults it states normalize to equal cards.
C17_DefaultElision ==
    /\ jpc = "components" =>
           jscard = WithoutDefaults(WithoutLocalizations(card_in), <<>>)
    /\ Returned =>
           /\ DictHas(jscard.kv, "kind") <=>
                  /\ DictHas(card_in.kv, "kind")
                  /\ DictGet(card_in.kv, "kind") # JStr("individual")
           /\ DictHas(jscard.kv, "kind") =>
                  DictGet(jscard.kv, "kind") = DictGet(card_in.kv, "kind")
           /\ LET omitting == normalize_jscard(WithoutDefaults(card_in, <<>>))
              IN omitting.raised = "" /\ PyEq(omitting.val, jscard)

\* a card that states kind "individual", the @type of a name component and the
\* defaults of an address has been normalized
C17_Witness ==
    /\ Returned
    /\ DictHas(card_in.kv, "kind")
    /\ DictGet(card_in.kv, "kind") = JStr("individual")
    /\ DictHas(card_in.kv, "name")
    /\ CompT \in { e[2] : e \in { DictGet(DictGet(card_in.kv, "name").kv,
                                            "components").kv[i] :
                  i \in DOMAIN DictGet(DictGet(card_in.kv, "name").kv,
                                       "components").kv } }
    /\ DictHas(card_in.kv, "addresses")
    /\ ~DictHas(jscard.kv, "kind")
    /\ card_in # jscard

\* a node with a components list whose isOrdered flag is absent or false
IsUnorderedNode(v) ==
    /\ v.t = "dict"
    /\ DictHas(v.kv, "components")
    /\ DictGet(v.kv, "components").t = "list"
    /\ ~(DictHas(v.kv, "isOrdered") /\ Truthy(DictGet(v.kv, "isOrdered")))

\* the values that differ from v at most in the order of the components list
\* of one unordered node
RECURSIVE Reorderings(_)
Reorderings(v) ==
    IF v.t \notin {"dict", "list"} THEN {v}
    ELSE LET here == IF IsUnorderedNode(v)
                     THEN { [v EXCEPT !.kv = DictSet(@, "components",
                                [DictGet(v.kv, "components") EXCEPT !.kv = q])] :
                            q \in Perms(DictGet(v.kv, "components").kv) }
                     ELSE {v}
             below == UNION { { [v EXCEPT !.kv[i] = <<v.kv[i][1], w>>] :
                                  w \in Reorderings(v.kv[i][2]) } :
                              i \in DOMAIN v.kv }
         IN here \cup below

\* C18: for every node of a card with a components list and an isOrdered flag
\* that is absent or false, the cards that differ only in the order of that
\* list normalize to equal cards; a node with isOrdered true keeps the order
\* of its list.
C18_UnorderedComponentsCanonical ==
    Returned =>
        /\ \A c \in Reorderings(card_in) :
               LET other == normalize_jscard(c)
               IN other.raised = "" /\ PyEq(other.val, jscard)
        /\ DictHas(card_in.kv, "name") /\ ~IsUnorderedNode(DictGet(card_in.kv, "name")) =>
               DictGet(DictGet(jscard.kv, "name").kv, "components") =
                   DictGet(DictGet(WithoutDefaults(card_in, <<>>).kv, "name").kv,
                           "components")

(***************************************************************************)
(* encode_path, JSPropDiff, diff_list and diff_objs                        *)
(***************************************************************************)

\* p.replace("~", "~0").replace("/", "~1") on the keys of the model
EscapeSeg(p) ==
    CASE p = "a/b" -> "a~1b"
      [] p = "a~b" -> "a~0b"
      [] OTHER -> p

\* "/".join(l)
RECURSIVE Join(_)
Join(l) ==
    IF l = <<>> THEN ""
    ELSE IF Len(l) = 1 THEN l[1]
    ELSE l[1] \o "/" \o Join(Tail(l))

encode_path(segs) ==
    IF Len(segs) > 0 /\ segs[1] = "localizations" THEN Join(segs)
    ELSE Join([i \in DOMAIN segs |-> EscapeSeg(segs[i])])

\* a_val and b_val default to None
JSPropDiff(path, a_val, b_val) == [path |-> path, a_val |-> a_val, b_val |-> b_val]

\* str(i) of a list index
StrOfInt(i) ==
    CASE i = 0 -> "0"
      [] i = 1 -> "1"
      [] i = 2 -> "2"
      [] i = 3 -> "3"

RECURSIVE diff_objs(_, _, _)
RECURSIVE diff_list(_, _, _)
RECURSIVE DiffListFrom(_, _, _, _)
RECURSIVE MissingFrom(_, _, _, _)
RECURSIVE UnexpectedFrom(_, _, _, _)
RECURSIVE SharedFrom(_, _, _, _)

\* the three branches on a pair of values found at segs, the same in
\* diff_list and in diff_objs
DiffValues(a_val, b_val, segs) ==
    IF a_val.t = "dict" /\ b_val.t = "dict" THEN diff_objs(a_val, b_val, segs)
    ELSE IF a_val.t = "list" /\ b_val.t = "list" THEN diff_list(a_val, b_val, segs)
    ELSE IF ~PyEq(a_val, b_val)
    THEN SetToBag({JSPropDiff(encode_path(segs), a_val, b_val)})
    ELSE EmptyBag

\* for i in range(len(a)), from the i-th item (counted from 1)
DiffListFrom(a, b, segs, i) ==
    IF i > Len(a.kv) THEN EmptyBag
    ELSE DiffValues(a.kv[i][2], b.kv[i][2], Append(segs, StrOfInt(i - 1)))
             (+) DiffListFrom(a, b, segs, i + 1)

diff_list(a, b, segs) ==
    IF Len(a.kv) # Len(b.kv)
    THEN SetToBag({JSPropDiff(encode_path(segs), a, b)})
    ELSE DiffListFrom(a, b, segs, 1)

\* for key in a_keys - b_keys, as reported by a variant that sets b_val
MissingFrom_AsUnexpected(a, b, segs, i) ==
    IF i > Len(a.kv) THEN EmptyBag
    ELSE (IF ~DictHas(b.kv, a.kv[i][1])
          THEN SetToBag({JSPropDiff(encode_path(Append(segs, a.kv[i][1])),
                                    JNone, a.kv[i][2])})
          ELSE EmptyBag) (+) MissingFrom(a, b, segs, i + 1)

\* for key in a_keys - b_keys: JSPropDiff(path, a_val=a[key])
MissingFrom(a, b, segs, i) ==
    IF i > Len(a.kv) THEN EmptyBag
    ELSE (IF ~DictHas(b.kv, a.kv[i][1])
          THEN SetToBag({JSPropDiff(encode_path(Append(segs, a.kv[i][1])),
                                    a.kv[i][2], JNone)})
          ELSE EmptyBag) (+) MissingFrom(a, b, segs, i + 1)

\* for key in b_keys - a_keys: JSPropDiff(path, b_val=b[key])
UnexpectedFrom(a, b, segs, i) ==
    IF i > Len(b.kv) THEN EmptyBag
    ELSE (IF ~DictHas(a.kv, b.kv[i][1])
          THEN SetToBag({JSPropDiff(encode_path(Append(segs, b.kv[i][1])),
                                    JNone, b.kv[i][2])})
          ELSE EmptyBag) (+) UnexpectedFrom(a, b, segs, i + 1)

\* for key in a_keys & b_keys
SharedFrom(a, b, segs, i) ==
    IF i > Len(a.kv) THEN EmptyBag
    ELSE (IF DictHas(b.kv, a.kv[i][1])
          THEN DiffValues(a.kv[i][2], DictGet(b.kv, a.kv[i][1]),
                          Append(segs, a.kv[i][1]))
          ELSE EmptyBag) (+) SharedFrom(a, b, segs, i + 1)

\* the JSPropDiff that diff_objs appends; the frozensets are iterated in no
\* fixed order, so the appended diffs are kept as a bag
diff_objs(a, b, segs) ==
    MissingFrom(a, b, segs, 1) (+) UnexpectedFrom(a, b, segs, 1)
        (+) SharedFrom(a, b, segs, 1)

(***************************************************************************)
(* diff_objs(a, b, diffs, []), loop by loop                                *)
(***************************************************************************)

\* for key in a_keys - b_keys
DiffMissing ==
    /\ dpc = "missing"
    /\ diffs' = diffs (+) MissingFrom(a_obj, b_obj, <<>>, 1)
    /\ dpc' = "unexpected"
    /\ UNCHANGED << a_obj, b_obj, vcardvars, cardvars, auxvars >>

\* for key in b_keys - a_keys
DiffUnexpected ==
    /\ dpc = "unexpected"
    /\ diffs' = diffs (+) UnexpectedFrom(a_obj, b_obj, <<>>, 1)
    /\ dpc' = "shared"
    /\ UNCHANGED << a_obj, b_obj, vcardvars, cardvars, auxvars >>

\* for key in a_keys & b_keys
DiffShared ==
    /\ dpc = "shared"
    /\ diffs' = diffs (+) SharedFrom(a_obj, b_obj, <<>>, 1)
    /\ dpc' = "done"
    /\ UNCHANGED << a_obj, b_obj, vcardvars, cardvars, auxvars >>

NextDiff ==
    \/ DiffMissing
    \/ DiffUnexpected
    \/ DiffShared

\* most keys of one of the two maps
MaxDiffKeys == 2

\* the values a key may have in the maps that are compared
DiffKeyOptions ==
    << <<"a", {JInt("1"), JInt("2")}>>,
       <<"b", {JInt("2")}>>,
       <<"c", {JInt("3"), JNone}>>,
       <<"a/b", {JInt("1")}>>,
       <<"n", {JList(<<JInt("1")>>), JList(<<JInt("1"), JInt("2")>>),
               JDict(Entry("x", JInt("1"))), JDict(Entry("x", JInt("2")))}>>,
       <<"localizations", {JDict(Entry("a/b", JInt("1"))),
                           JDict(Entry("a/b", JInt("2")))}>> >>

\* the entries of the maps that take their keys from the i-th on
RECURSIVE DiffEntriesFrom(_)
DiffEntriesFrom(i) ==
    IF i > Len(DiffKeyOptions) THEN {<<>>}
    ELSE LET rest == DiffEntriesFrom(i + 1)
         IN rest \cup { Entry(DiffKeyOptions[i][1], v) \o r :
                          v \in DiffKeyOptions[i][2], r \in rest }

DiffMaps == { JDict(e) : e \in { f \in DiffEntriesFrom(1) : Len(f) <= MaxDiffKeys } }

InitDiff ==
    /\ a_obj \in DiffMaps
    /\ b_obj \in DiffMaps
    /\ diffs = EmptyBag
    /\ dpc = "missing"
    /\ VcardIdle
    /\ CardIdle
    /\ AuxIdle

SpecDiff == InitDiff /\ [][NextDiff]_vars

\* the loops append what the function diff_objs says
DiffStepsAgree == dpc = "done" => diffs = diff_objs(a_obj, b_obj, <<>>)

(***************************************************************************)
(* Properties of the differ                                                *)
(***************************************************************************)

\* how many of the appended diffs carry the path
DiffsAt(path) ==
    LET S == { d \in BagToSet(diffs) : d.path = path }
        RECURSIVE Sum(_)
        Sum(T) == IF T = {} THEN 0
                  ELSE LET d == CHOOSE x \in T : TRUE
                       IN CopiesIn(d, diffs) + Sum(T \ {d})
    IN Sum(S)

\* the map without the keys it shares with equal values with the other map
WithoutEqualShared(m, other) ==
    [m EXCEPT !.kv = SelectSeq(m.kv, LAMBDA e :
        ~(DictHas(other.kv, e[1]) /\ PyEq(e[2], DictGet(other.kv, e[1]))))]

\* want = {"a": 1, "b": 2}
DiffExampleWant == JDict(Entry("a", JInt("1")) \o Entry("b", JInt("2")))

\* have = {"a": 1, "c": 3}
DiffExampleHave == JDict(Entry("a", JInt("1")) \o Entry("c", JInt("3")))

\* C19: diffing two maps yields, for each key only in want, one diff at the
\* path of that key with only the expected value set; for each key only in
\* have, one diff with only the actual value set; nothing for the shared keys
\* with equal values. want = {"a": 1, "b": 2} and have = {"a": 1, "c": 3} give
\* exactly two diffs: missing b and unexpected c.
C19_MissingAndUnexpected ==
    dpc = "done" =>
        LET a_keys == DictKeys(a_obj.kv)
            b_keys == DictKeys(b_obj.kv)
        IN /\ \A k \in a_keys \ b_keys :
                  /\ CopiesIn(JSPropDiff(encode_path(<<k>>), DictGet(a_obj.kv, k),
                                         JNone), diffs) = 1
                  /\ DiffsAt(encode_path(<<k>>)) = 1
           /\ \A k \in b_keys \ a_keys :
                  /\ CopiesIn(JSPropDiff(encode_path(<<k>>), JNone,
                                         DictGet(b_obj.kv, k)), diffs) = 1
                  /\ DiffsAt(encode_path(<<k>>)) = 1
           /\ \A k \in a_keys \cap b_keys :
                  PyEq(DictGet(a_obj.kv, k), DictGet(b_obj.kv, k)) =>
                      DiffsAt(encode_path(<<k>>)) = 0
           /\ diffs = diff_objs(WithoutEqualShared(a_obj, b_obj),
                                WithoutEqualShared(b_obj, a_obj), <<>>)
           /\ (\A k \in a_keys \cap b_keys :
                   PyEq(DictGet(a_obj.kv, k), DictGet(b_obj.kv, k))) =>
                  BagCardinality(diffs) =
                      Cardinality(a_keys \ b_keys) + Cardinality(b_keys \ a_keys)
           /\ a_obj = DiffExampleWant /\ b_obj = DiffExampleHave =>
                  diffs = SetToBag({JSPropDiff("b", JInt("2"), JNone),
                                    JSPropDiff("c", JNone, JInt("3"))})

\* the example has been diffed
C19_Witness ==
    /\ dpc = "done"
    /\ a_obj = DiffExampleWant
    /\ b_obj = DiffExampleHave
    /\ BagCardinality(diffs) = 2

(***************************************************************************)
(* The runs on records with JSON text values                               *)
(***************************************************************************)

\* most JSPROP and X-FOO properties of a record
MaxJsonProps == 2

\* the JSON object with the keys in the order of the pattern, in the other
\* order, without blanks, and a text that is no JSON; a property without pattern
JsonPropUniverse ==
    { Prop(None, "JSPROP", <<>>, "{\"a\": 1\\, \"b\": 2}"),
      Prop(None, "JSPROP", <<>>, "{\"b\": 2\\, \"a\": 1}"),
      Prop(None, "JSPROP", <<>>, "{\"a\":1\\,\"b\":2}"),
      Prop(None, "JSPROP", <<>>, "{\"a\": 1"),
      Prop(None, "X-FOO", <<>>, "bar") }

JsonPattern(jval) == PropMatch("JSPROP", TextJSONValue(jval), <<>>, TRUE, NoAltId, NoGroup)

JsonWantLists ==
    { <<JsonPattern("{\"a\": 1, \"b\": 2}")>>,
      <<JsonPattern("{\"b\": 2, \"a\": 1}")>>,
      <<>> }

\* the header a converter emits
JsonHeader ==
    << Prop(None, "VERSION", <<>>, "4.0"), Prop(None, "FN", <<>>, "x") >>

JsonRecords ==
    {Wrapped(JsonHeader \o e) : e \in SeqsUpTo(JsonPropUniverse, MaxJsonProps)}
        \cup {<<p>> : p \in JsonPropUniverse}

InitJson == InitWith(JsonRecords, JsonWantLists)

SpecJson == InitJson /\ [][Next]_vars

\* a TextJSONValue is about to be tested on the value of the property
AtJsonTest == AtTest /\ Matches[idx].value.t = "TextJSONValue"

\* C20: the JsonText matcher ignores the order of the object keys: an observed
\* value that, un-escaped, parses to the same JSON value as the expected one
\* matches, also when its keys come in another order than in the expected text.
C20_JsonTextIgnoresKeyOrder ==
    AtJsonTest =>
        LET observed == json_loads(Unescape(props[prop_i].value))
            expected == json_loads(Matches[idx].value.v)
        IN observed.raised = "" /\ PyEq(observed.val, expected.val) =>
               match_value(Matches[idx].value, props[prop_i].value)

\* what the matcher does decide: the observed text matches when it serializes
\* to the text the expected value serializes to
JsonTextMatchesBySerialization ==
    AtJsonTest =>
        LET observed == json_loads(Unescape(props[prop_i].value))
        IN match_value(Matches[idx].value, props[prop_i].value) <=>
               /\ observed.raised = ""
               /\ observed.val = json_loads(Matches[idx].value.v).val

(***************************************************************************)
(* Properties of the acceptance of a candidate                             *)
(***************************************************************************)

\* the candidates left in the lists of a table, as a set of pids
PidsIn(table) ==
    UNION {{table[k][2][i].pid : i \in DOMAIN table[k][2]} : k \in DOMAIN table}

\* the step accepts the candidate at idx for the property at prop_i
AcceptStep == pc = "scan" /\ pc' = "loop" /\ accepted' # accepted

\* the step records the property at prop_i as mismatched
MismatchStep == pc = "scan" /\ pc' = "loop" /\ accepted' = accepted

\* C26: the accepted candidate is the lowest-index pattern of the current
\* candidate list of the name that accepts the property; it is removed and the
\* others keep their order; no pattern is consumed by two properties; a
\* consumed pattern is never put back; a mismatch leaves the candidate lists as
\* they were.
C26_FirstFit ==
    [][ /\ AcceptStep =>
              LET name == props[prop_i].name
              IN /\ Tested.ok
                 /\ \A j \in 1..(idx - 1) :
                        ~PropMatch_match(Matches[j], props[prop_i], group_by_id,
                                         altid_by_id).ok
                 /\ IF Len(Matches) = 1 THEN ~DictHas(matches_by_name', name)
                    ELSE DictGet(matches_by_name', name) = ListDel(Matches, idx)
                 /\ \A k \in DictKeys(matches_by_name) \ {name} :
                        /\ DictHas(matches_by_name', k)
                        /\ DictGet(matches_by_name', k) = DictGet(matches_by_name, k)
        /\ MismatchStep => matches_by_name' = matches_by_name
        /\ \A i, j \in DOMAIN accepted' :
               accepted'[i][2] = accepted'[j][2] => i = j
        /\ \A k \in DOMAIN accepted' : accepted'[k][2] \notin PidsIn(matches_by_name')
      ]_vars

\* a run has ended in which a property was accepted by a candidate that was
\* not the first of its list, another property was mismatched, and a candidate
\* that stood before an accepted one is still in its list
C26_Witness ==
    /\ pc = "done"
    /\ Len(accepted) >= 2
    /\ \E e \in DOMAIN match_errors : match_errors[e].kind = "mismatched"
    /\ \E k \in DOMAIN accepted, n \in DOMAIN matches_by_name :
           \E i \in DOMAIN matches_by_name[n][2] :
               /\ matches_by_name[n][1] = props[accepted[k][1]].name
               /\ matches_by_name[n][2][i].pid < accepted[k][2]

(***************************************************************************)
(* The parameter check of PropMatch.match                                  *)
(***************************************************************************)

\* most parameters of a property, most ParamMatch of a pattern
MaxParams == 2

ParamUniverse ==
    { Param("VALUE", "a"), Param("VALUE", "b"), Param("DERIVED", "true"),
      Param("ALTID", "1") }

ParamMatchUniverse ==
    { ParamMatch("VALUE", AnyValue, TRUE), ParamMatch("VALUE", Literal("a"), TRUE),
      ParamMatch("VALUE", AnyValue, FALSE), ParamMatch("DERIVED", AnyValue, FALSE) }

\* records of one TITLE with up to MaxParams parameters, with and without
\* wrapper, and a record with a property that has no pattern
ParamRecords ==
    {Wrapped(<<Prop(None, "TITLE", ps, "a")>>) : ps \in SeqsUpTo(ParamUniverse, MaxParams)}
        \cup {<<Prop(None, "TITLE", <<>>, "a")>>,
              Wrapped(<<Prop(None, "X-FOO", <<>>, "bar")>>)}

ParamWantLists ==
    {<<PropMatch("TITLE", AnyValue, pms, FALSE, NoAltId, NoGroup)>> :
        pms \in SeqsUpTo(ParamMatchUniverse, MaxParams)}

InitParams == InitWith(ParamRecords, ParamWantLists)

SpecParams == InitParams /\ [][Next]_vars

\* positions of the parameters of a property other than ALTID
NonAltId(prop) == {i \in DOMAIN prop.params : prop.params[i].name # "ALTID"}

\* f pairs every non-ALTID parameter with a ParamMatch of its name whose value
\* spec matches, no ParamMatch twice, and every ParamMatch left is optional
IsPairing(f, self, prop) ==
    /\ \A i, j \in DOMAIN f : f[i] = f[j] => i = j
    /\ \A i \in DOMAIN f :
           /\ self.params[f[i]].name = prop.params[i].name
           /\ match_value(self.params[f[i]].value, prop.params[i].value)
    /\ \A k \in DOMAIN self.params :
           (\A i \in DOMAIN f : f[i] # k) => ~self.params[k].mandatory

CanBePaired(self, prop) ==
    \E f \in [NonAltId(prop) -> DOMAIN self.params] : IsPairing(f, self, prop)

\* no two ParamMatch of the pattern have the same name
DistinctParamNames(self) ==
    \A i, j \in DOMAIN self.params :
        self.params[i].name = self.params[j].name => i = j

\* C27 as stated: the parameter check passes exactly when a pairing exists
C27_PassesIffPairingExists ==
    AtTest => (MatchParams(Matches[idx], props[prop_i])
                   <=> CanBePaired(Matches[idx], props[prop_i]))

\* C27: when the parameter check passes, the non-ALTID parameters can each be
\* paired with a distinct ParamMatch of the same name whose value spec matches
\* and every unpaired ParamMatch is non-mandatory; when the pattern has no two
\* ParamMatch of one name the check passes exactly when such a pairing exists.
C27_ParamCheck ==
    AtTest =>
        /\ MatchParams(Matches[idx], props[prop_i])
               => CanBePaired(Matches[idx], props[prop_i])
        /\ DistinctParamNames(Matches[idx])
               => (MatchParams(Matches[idx], props[prop_i])
                       <=> CanBePaired(Matches[idx], props[prop_i]))

\* a property with an ALTID and another parameter passes the check of a
\* pattern that has a ParamMatch left over
C27_Witness ==
    /\ AtTest
    /\ MatchParams(Matches[idx], props[prop_i])
    /\ Len(props[prop_i].params) = 2
    /\ NonAltId(props[prop_i]) # DOMAIN props[prop_i].params
    /\ Len(Matches[idx].params) = 2

(***************************************************************************)
(* ComponentsValue.match.  A string is the sequence of its characters.     *)
(***************************************************************************)

\* re.split(r"(?<!\\)" + sep, val), scanning from position i: cur is the
\* piece being read, out the pieces closed so far
RECURSIVE SplitFrom(_, _, _, _, _)
SplitFrom(val, i, sep, cur, out) ==
    IF i > Len(val) THEN Append(out, cur)
    ELSE IF val[i] = sep /\ (i = 1 \/ val[i - 1] # "\\")
         THEN SplitFrom(val, i + 1, sep, <<>>, Append(out, cur))
         ELSE SplitFrom(val, i + 1, sep, Append(cur, val[i]), out)

re_split_unescaped(val, sep) == SplitFrom(val, 1, sep, <<>>, <<>>)

\* a str slot and a set slot of comps
StrSlot(chars) == [isstr |-> TRUE, lit |-> chars, set |-> {}]

SetSlot(strings) == [isstr |-> FALSE, lit |-> <<>>, set |-> strings]

SeqToSet(l) == {l[i] : i \in DOMAIN l}

\* the body of "for i, want_subcomp in enumerate(self.comps)"
SlotMatches(want_subcomp, subcomp) ==
    IF want_subcomp.isstr THEN want_subcomp.lit = subcomp
    ELSE SeqToSet(re_split_unescaped(subcomp, ",")) = want_subcomp.set

\* ComponentsValue.match that accepts a subcomponent holding some of the set
ComponentsValue_match_Subset(comps, val) ==
    LET subcomps == re_split_unescaped(val, ";")
    IN /\ Len(comps) = Len(subcomps)
       /\ \A i \in DOMAIN comps :
              IF comps[i].isstr THEN comps[i].lit = subcomps[i]
              ELSE SeqToSet(re_split_unescaped(subcomps[i], ",")) \subseteq comps[i].set

ComponentsValue_match(comps, val) ==
    LET subcomps == re_split_unescaped(val, ";")
    IN IF Len(comps) # Len(subcomps) THEN FALSE
       ELSE \A i \in DOMAIN comps : SlotMatches(comps[i], subcomps[i])

\* longest value drawn from the alphabet
MaxValLen == 4

ValAlphabet == {"a", "x", "y", ";", ",", "\\"}

\* Components(["a", {"x", "y"}])
ComponentsExample == << StrSlot(<<"a">>), SetSlot({<<"x">>, <<"y">>}) >>

ComponentsUniverse ==
    { ComponentsExample,
      << StrSlot(<<"a">>) >>,
      << SetSlot({<<"x">>}), StrSlot(<<>>) >>,
      << SetSlot({<<"x", "\\", ",", "y">>}) >>,
      << StrSlot(<<"a", "\\", ";", "x">>) >>,
      << SetSlot({<<>>, <<"a">>}) >> }

ValUniverse ==
    SeqsUpTo(ValAlphabet, MaxValLen)
        \cup { <<"a", ";", "y", ",", "x">>,
               <<"a", ";", "y", ",", "x", ",", "z">> }

InitComponents ==
    /\ fn_self \in ComponentsUniverse
    /\ fn_arg \in ValUniverse
    /\ fn_ret = <<>>
    /\ fpc = "ComponentsValue.match"
    /\ VcardIdle
    /\ CardIdle
    /\ DiffIdle
    /\ RunIdle
    /\ SharedIdle

\* self.match(val)
CallComponentsMatch ==
    /\ fpc = "ComponentsValue.match"
    /\ fn_ret' = <<ComponentsValue_match(fn_self, fn_arg)>>
    /\ fpc' = "done"
    /\ UNCHANGED << fn_self, fn_arg, vcardvars, cardvars, diffvars, runvars, sharedvars >>

SpecComponents == InitComponents /\ [][CallComponentsMatch]_vars

\* positions of the separators that are not preceded by a backslash
Cuts(val, sep) ==
    {i \in DOMAIN val : val[i] = sep /\ (i = 1 \/ val[i - 1] # "\\")}

\* the n-th stretch of val between two such separators
Stretch(val, sep, n) ==
    LET ends == Cuts(val, sep) \cup {0, Len(val) + 1}
        Nth(k) == CHOOSE e \in ends : Cardinality({d \in ends : d < e}) = k
    IN SubSeq(val, Nth(n - 1) + 1, Nth(n) - 1)

Stretches(val, sep) == {Stretch(val, sep, n) : n \in 1..(Cardinality(Cuts(val, sep)) + 1)}

\* C21: the Components matcher accepts exactly when the value has as many
\* stretches between unescaped ';' as the spec has slots, every literal slot
\* equals its stretch, and every set slot equals, as a set, the stretches of
\* its subcomponent between unescaped ','; Components(["a", {"x", "y"}])
\* accepts "a;y,x" and rejects "a;y,x,z" and "a".
C21_ComponentsMatch ==
    fpc = "done" =>
        /\ fn_ret[1] <=>
               /\ Cardinality(Cuts(fn_arg, ";")) + 1 = Len(fn_self)
               /\ \A i \in DOMAIN fn_self :
                      IF fn_self[i].isstr
                      THEN fn_self[i].lit = Stretch(fn_arg, ";", i)
                      ELSE fn_self[i].set = Stretches(Stretch(fn_arg, ";", i), ",")
        /\ fn_self = ComponentsExample =>
               /\ fn_arg = <<"a", ";", "y", ",", "x">> => fn_ret[1]
               /\ fn_arg = <<"a", ";", "y", ",", "x", ",", "z">> => ~fn_ret[1]
               /\ fn_arg = <<"a">> => ~fn_ret[1]

\* the example spec has accepted "a;y,x"
C21_Witness ==
    /\ fpc = "done"
    /\ fn_self = ComponentsExample
    /\ fn_arg = <<"a", ";", "y", ",", "x">>
    /\ fn_ret = <<TRUE>>

\* a spec with an escaped separator has accepted a value
C21_WitnessEscaped ==
    /\ fpc = "done"
    /\ fn_ret = <<TRUE>>
    /\ \E i \in DOMAIN fn_arg : fn_arg[i] = "\\"

(***************************************************************************)
(* Prop.fromstr.  A line is the sequence of its characters.                *)
(***************************************************************************)

\* the characters of [A-Za-z0-9-] that lines of the model hold
NameChars == {"F", "n", "-"}

\* str.upper on one character
UpperChar(c) == IF c = "n" THEN "N" ELSE c

UpperChars(s) == [i \in DOMAIN s |-> UpperChar(s[i])]

Take(s, n) == SubSeq(s, 1, n)

Drop(s, n) == SubSeq(s, n + 1, Len(s))

\* m.end() of re.match("[A-Za-z0-9-]+", s), 0 when there is no match
NameEnd(s) ==
    LET stops == {i \in DOMAIN s : s[i] \notin NameChars}
    IN IF stops = {} THEN Len(s)
       ELSE (CHOOSE i \in stops : \A j \in stops : i <= j) - 1

\* length of what ((".*?(?<!\\)")|[^";:]*) matches at the start of s: up to
\* the first closing quote not preceded by a backslash, else the longest run
\* without quote, semicolon and colon
ParamValueEnd(s) ==
    LET closers == {j \in 2..Len(s) : s[j] = "\"" /\ s[j - 1] # "\\"}
        stops == {i \in DOMAIN s : s[i] \in {"\"", ";", ":"}}
    IN IF s # <<>> /\ s[1] = "\"" /\ closers # {}
       THEN CHOOSE j \in closers : \A k \in closers : j <= k
       ELSE IF stops = {} THEN Len(s)
       ELSE (CHOOSE i \in stops : \A j \in stops : i <= j) - 1

\* "Parse parameters" and "Parse value": s[0] of an empty rest is an
\* IndexError
RECURSIVE ParseParams(_, _, _, _)
ParseParams(group, name, s, params) ==
    IF s = <<>> THEN Raise("IndexError")
    ELSE IF s[1] = ";"
    THEN IF NameEnd(Drop(s, 1)) = 0 \/ Len(s) < NameEnd(Drop(s, 1)) + 2
         THEN Raise("ParseError")
         ELSE IF s[NameEnd(Drop(s, 1)) + 2] # "=" THEN Raise("ParseError")
         ELSE ParseParams(group, name,
                  Drop(s, NameEnd(Drop(s, 1)) + 2
                              + ParamValueEnd(Drop(s, NameEnd(Drop(s, 1)) + 2))),
                  Append(params,
                         Param(UpperChars(SubSeq(s, 2, NameEnd(Drop(s, 1)) + 1)),
                               Take(Drop(s, NameEnd(Drop(s, 1)) + 2),
                                    ParamValueEnd(Drop(s, NameEnd(Drop(s, 1)) + 2))))))
    ELSE IF s[1] # ":" THEN Raise("ParseError")
    ELSE Ok(Prop(group, name, params, Drop(s, 1)))

\* the rest of fromstr once the name is matched at the start of s
AfterName(group, s) ==
    ParseParams(group, UpperChars(Take(s, NameEnd(s))), Drop(s, NameEnd(s)), <<>>)

\* "Parse name and group": s[m.end()] past the end of the line is an
\* IndexError
Prop_fromstr(s) ==
    IF NameEnd(s) = 0 THEN Raise("ParseError")
    ELSE IF NameEnd(s) = Len(s) THEN Raise("IndexError")
    ELSE IF s[NameEnd(s) + 1] = "."
         THEN IF NameEnd(Drop(s, NameEnd(s) + 1)) = 0 THEN Raise("ParseError")
              ELSE AfterName(<<Take(s, NameEnd(s))>>, Drop(s, NameEnd(s) + 1))
         ELSE AfterName(<<>>, s)

\* longest line
MaxLineLen == 4

LineAlphabet == {"F", "n", ".", ";", "=", ":", "\""}

InitLine ==
    /\ fn_self = <<>>
    /\ fn_arg \in SeqsUpTo(LineAlphabet, MaxLineLen)
    /\ fn_ret = <<>>
    /\ fpc = "Prop.fromstr"
    /\ VcardIdle
    /\ CardIdle
    /\ DiffIdle
    /\ RunIdle
    /\ SharedIdle

\* Prop.fromstr(l)
CallFromstr ==
    /\ fpc = "Prop.fromstr"
    /\ fn_ret' = Prop_fromstr(fn_arg)
    /\ fpc' = "done"
    /\ UNCHANGED << fn_self, fn_arg, vcardvars, cardvars, diffvars, runvars, sharedvars >>

SpecLine == InitLine /\ [][CallFromstr]_vars

\* C22: a line either parses or fails with ParseError, and with no other
\* kind of error.
C22_OnlyParseError == fpc = "done" => fn_ret.raised \in {"", "ParseError"}

\* the errors of the three kinds of lines the claim names
C22_ErrorsSeen ==
    fpc = "done" =>
        /\ fn_arg = <<>> => fn_ret.raised = "ParseError"
        /\ fn_arg = <<".", "F", ":">> => fn_ret.raised = "ParseError"
        /\ fn_arg = <<"F", ";", ":">> => fn_ret.raised = "ParseError"
        /\ fn_arg = <<"F", "n">> => fn_ret.raised = "IndexError"
        /\ fn_arg = <<"F", ";", "n", "=">> => fn_ret.raised = "IndexError"
        /\ fn_arg = <<"n", ".", "F">> => fn_ret.raised = "IndexError"
        /\ fn_arg = <<"n", ".", "F", ":">>
               => fn_ret = Ok(Prop(<<<<"n">>>>, <<"F">>, <<>>, <<>>))
        /\ fn_arg = <<"n", ":", ";">>
               => fn_ret = Ok(Prop(<<>>, <<"N">>, <<>>, <<";">>))

(***************************************************************************)
(* match_jscard, step by step.  Objects live in heap; a local name is      *)
(* bound to the place of its object.                                       *)
(***************************************************************************)

\* copy.deepcopy that hands back the object it was given
deepcopy_Alias(h, src, dst) == [heap |-> h, ref |-> src]

\* copy.deepcopy(h[src]): a new object at dst, equal to the one at src
deepcopy(h, src, dst) == [heap |-> [h EXCEPT ![dst] = h[src]], ref |-> dst]

\* have_card.pop(key, None) for each of the four keys not in want_card
PopUndeclared(want, have) ==
    [have EXCEPT !.kv =
        SelectSeq(@, LAMBDA e :
            IF e[1] \in {"created", "updated", "prodId", "vCardProps"}
            THEN DictHas(want.kv, e[1]) ELSE TRUE)]

\* prop.find(":") >= 0 on the keys of the model
HasColon(key) == key \in {"example.com:foo"}

\* remove_unknown_vendorprops that deletes nothing
remove_unknown_vendorprops_Keep(want, have) == have

remove_unknown_vendorprops(want, have) ==
    [have EXCEPT !.kv =
        SelectSeq(@, LAMBDA e :
            IF HasColon(e[1]) THEN DictHas(want.kv, e[1]) ELSE TRUE)]

\* want_card = copy.deepcopy(want_card); have_card = copy.deepcopy(have_card)
CopyBoth(w, h) ==
    /\ heap' = h.heap
    /\ refs' = [refs EXCEPT !.want_card = w.ref, !.have_card = h.ref]

MjCopy ==
    /\ rpc = "match_jscard"
    /\ CopyBoth(deepcopy(heap, refs.jscard, "want_card"),
                deepcopy(deepcopy(heap, refs.jscard, "want_card").heap,
                         "got_jscard", "have_card"))
    /\ rpc' = "mj_pop"
    /\ UNCHANGED << tc, result, calls, mj_raised, mj_diffs >>
    /\ UNCHANGED << vcardvars, cardvars, diffvars, fnvars, sharedvars >>

\* "Remove these props, if not explicitly set"
MjPop ==
    /\ rpc = "mj_pop"
    /\ heap' = [heap EXCEPT ![refs.have_card] =
                    PopUndeclared(heap[refs.want_card], heap[refs.have_card])]
    /\ rpc' = "mj_vendor"
    /\ UNCHANGED << tc, refs, result, calls, mj_raised, mj_diffs >>
    /\ UNCHANGED << vcardvars, cardvars, diffvars, fnvars, sharedvars >>

MjVendor ==
    /\ rpc = "mj_vendor"
    /\ heap' = [heap EXCEPT ![refs.have_card] =
                    remove_unknown_vendorprops(heap[refs.want_card],
                                               heap[refs.have_card])]
    /\ rpc' = "mj_norm_want"
    /\ UNCHANGED << tc, refs, result, calls, mj_raised, mj_diffs >>
    /\ UNCHANGED << vcardvars, cardvars, diffvars, fnvars, sharedvars >>

\* normalize_jscard(card) in place; an exception leaves match_jscard
NormalizeInPlace(ref, r, next) ==
    /\ heap' = IF r.raised = "" THEN [heap EXCEPT ![ref] = r.val] ELSE heap
    /\ mj_raised' = r.raised
    /\ rpc' = IF r.raised = "" THEN next ELSE "mj_done"

MjNormalizeWant ==
    /\ rpc = "mj_norm_want"
    /\ NormalizeInPlace(refs.want_card, normalize_jscard(heap[refs.want_card]),
                        "mj_norm_have")
    /\ UNCHANGED << tc, refs, result, calls, mj_diffs >>
    /\ UNCHANGED << vcardvars, cardvars, diffvars, fnvars, sharedvars >>

MjNormalizeHave ==
    /\ rpc = "mj_norm_have"
    /\ NormalizeInPlace(refs.have_card, normalize_jscard(heap[refs.have_card]),
                        "mj_diff")
    /\ UNCHANGED << tc, refs, result, calls, mj_diffs >>
    /\ UNCHANGED << vcardvars, cardvars, diffvars, fnvars, sharedvars >>

\* diff_objs(want_card, have_card, diffs, []); if diffs: raise
MjDiff ==
    /\ rpc = "mj_diff"
    /\ mj_diffs' = diff_objs(heap[refs.want_card], heap[refs.have_card], <<>>)
    /\ mj_raised' = IF mj_diffs' # EmptyBag THEN "MatchJSCardError" ELSE "None"
    /\ rpc' = "mj_done"
    /\ UNCHANGED << tc, heap, refs, result, calls >>
    /\ UNCHANGED << vcardvars, cardvars, diffvars, fnvars, sharedvars >>

NextMatchJscard ==
    \/ MjCopy
    \/ MjPop
    \/ MjVendor
    \/ MjNormalizeWant
    \/ MjNormalizeHave
    \/ MjDiff

\* match_jscard as one function of the two cards: how it leaves, and diffs
DiffNormalized(w, h) ==
    IF w.raised # "" THEN [raised |-> w.raised, diffs |-> EmptyBag]
    ELSE IF h.raised # "" THEN [raised |-> h.raised, diffs |-> EmptyBag]
    ELSE [raised |-> IF diff_objs(w.val, h.val, <<>>) # EmptyBag
                     THEN "MatchJSCardError" ELSE "None",
          diffs |-> diff_objs(w.val, h.val, <<>>)]

match_jscard(want, have) ==
    DiffNormalized(normalize_jscard(want),
                   normalize_jscard(remove_unknown_vendorprops(want,
                                        PopUndeclared(want, have))))

\* most keys of a card given to match_jscard
MaxCardKeys == 2

CardKeyOptions ==
    << <<"created", {JStr("a"), JStr("b")}>>,
       <<"prodId", {JStr("a")}>>,
       <<"updated", {JStr("a")}>>,
       <<"vCardProps", {JList(<<JList(<<JStr("x")>>)>>)}>>,
       <<"example.com:foo", {JInt("1"), JInt("2")}>>,
       <<"a", {JInt("1"), JBool(TRUE), JList(<<JInt("1")>>),
               JDict(Entry("x", JInt("1")))}>> >>

RECURSIVE CardEntriesFrom(_)
CardEntriesFrom(i) ==
    IF i > Len(CardKeyOptions) THEN {<<>>}
    ELSE LET rest == CardEntriesFrom(i + 1)
         IN rest \cup { Entry(CardKeyOptions[i][1], v) \o r :
                          v \in CardKeyOptions[i][2], r \in rest }

MatchedCards == { JDict(e) : e \in { f \in CardEntriesFrom(1) : Len(f) <= MaxCardKeys } }

\* match_jscard(want_card, have_card) called on two cards
InitMatchJscard ==
    /\ tc = <<>>
    /\ \E w \in MatchedCards, h \in MatchedCards :
           heap = [NoObjects EXCEPT !["jscard"] = w, !["got_jscard"] = h]
    /\ refs = [NoRefs EXCEPT !.jscard = "jscard"]
    /\ result = Result("jscard")
    /\ calls = <<>>
    /\ mj_raised = ""
    /\ mj_diffs = EmptyBag
    /\ rpc = "match_jscard"
    /\ VcardIdle
    /\ CardIdle
    /\ DiffIdle
    /\ FnIdle
    /\ SharedIdle

SpecMatchJscard == InitMatchJscard /\ [][NextMatchJscard]_vars

\* the steps leave as the function does
MatchJscardStepsAgree ==
    rpc = "mj_done" =>
        /\ mj_raised = match_jscard(heap["jscard"], heap["got_jscard"]).raised
        /\ mj_diffs = match_jscard(heap["jscard"], heap["got_jscard"]).diffs

\* the top-level keys match_jscard sets aside when the expected card does not
\* have them
SetAsideKeys == {"created", "updated", "prodId", "vCardProps", "example.com:foo"}

\* the observed card without the keys set aside that the expected card lacks
WithoutSetAside(want, have) ==
    [have EXCEPT !.kv =
        SelectSeq(@, LAMBDA e : e[1] \in SetAsideKeys => DictHas(want.kv, e[1]))]

DiffPaths(bag) == {d.path : d \in BagToSet(bag)}

\* C28: an observed top-level created, updated, prodId or vCardProps, or an
\* observed top-level key with a ':', gives no diff when the expected card
\* lacks the key, and match_jscard leaves as it does on the observed card
\* without those keys; a key of these that the expected card has is compared
\* like any other: a diff at the key exactly when the observed card lacks it
\* or holds another value.
C28_SetAsideKeys ==
    rpc = "mj_done" =>
        LET want == heap["jscard"]
            have == heap["got_jscard"]
        IN /\ \A k \in SetAsideKeys \ DictKeys(want.kv) : k \notin DiffPaths(mj_diffs)
           /\ mj_raised = match_jscard(want, WithoutSetAside(want, have)).raised
           /\ mj_diffs = match_jscard(want, WithoutSetAside(want, have)).diffs
           /\ mj_raised \in {"None", "MatchJSCardError"} =>
                  \A k \in SetAsideKeys \cap DictKeys(want.kv) :
                      k \in DiffPaths(mj_diffs)
                          <=> IF DictHas(have.kv, k)
                              THEN ~PyEq(DictGet(want.kv, k), DictGet(have.kv, k))
                              ELSE TRUE

\* match_jscard has returned although the observed card holds a timestamp and
\* a vendor key the expected card lacks
C28_Witness ==
    /\ rpc = "mj_done"
    /\ mj_raised = "None"
    /\ {"created", "example.com:foo"} \subseteq DictKeys(heap["got_jscard"].kv)
    /\ DictKeys(heap["jscard"].kv) = {}

\* match_jscard has raised for a vendor key the expected card has with
\* another value
C28_WitnessDeclared ==
    /\ rpc = "mj_done"
    /\ mj_raised = "MatchJSCardError"
    /\ "example.com:foo" \in DiffPaths(mj_diffs)
    /\ DictHas(heap["got_jscard"].kv, "example.com:foo")

\* two JSON trees are the same tree: the same kind at every path, the same
\* keys in a map whatever their order, the same items in a list, the same
\* scalar
RECURSIVE JsonEq(_, _)
JsonEq(a, b) ==
    IF a.t # b.t THEN FALSE
    ELSE IF a.t = "dict"
    THEN /\ DictKeys(a.kv) = DictKeys(b.kv)
         /\ \A k \in DictKeys(a.kv) : JsonEq(DictGet(a.kv, k), DictGet(b.kv, k))
    ELSE IF a.t = "list"
    THEN /\ Len(a.kv) = Len(b.kv)
         /\ \A i \in DOMAIN a.kv : JsonEq(a.kv[i][2], b.kv[i][2])
    ELSE a.s = b.s

\* map, list or scalar
KindOf(v) == IF v.t \in {"dict", "list"} THEN v.t ELSE "scalar"

\* C29: diff_objs gives no diff exactly when the two normalized cards are the
\* same tree, so match_jscard returns exactly then; a map, a list and a scalar
\* at the same key always give a diff.
C29_NoDiffIffSameTree ==
    (rpc = "mj_done" /\ mj_raised \in {"None", "MatchJSCardError"}) =>
        LET want == heap[refs.want_card]
            have == heap[refs.have_card]
        IN /\ mj_diffs = EmptyBag <=> JsonEq(want, have)
           /\ mj_raised = "None" <=> JsonEq(want, have)
           /\ \A k \in DictKeys(want.kv) \cap DictKeys(have.kv) :
                  KindOf(DictGet(want.kv, k)) # KindOf(DictGet(have.kv, k))
                      => k \in DiffPaths(mj_diffs)

\* the same with the scalars compared as Python compares them: True equals 1
C29_NoDiffIffPyEq ==
    (rpc = "mj_done" /\ mj_raised \in {"None", "MatchJSCardError"}) =>
        LET want == heap[refs.want_card]
            have == heap[refs.have_card]
        IN /\ mj_diffs = EmptyBag <=> PyEq(want, have)
           /\ mj_raised = "None" <=> PyEq(want, have)
           /\ \A k \in DictKeys(want.kv) \cap DictKeys(have.kv) :
                  KindOf(DictGet(want.kv, k)) # KindOf(DictGet(have.kv, k))
                      => k \in DiffPaths(mj_diffs)

(***************************************************************************)
(* TestCase.run, step by step                                              *)
(***************************************************************************)

\* d[key] = val unless key is in d
SetDefault(card, key, val) ==
    IF DictHas(card.kv, key) THEN card
    ELSE [card EXCEPT !.kv = Append(@, <<key, val>>)]

\* the three "if ... not in jscard" of run; u is str(uuid.uuid4())
WithCardDefaults(card, u) ==
    SetDefault(SetDefault(SetDefault(card, "@type", JStr("Card")), "uid", JStr(u)),
               "version", JStr("1.0"))

\* where run goes after the first try statement, retrying to_vcard when it
\* did not succeed
AfterFirstTry_Retry(to_vcard, invalid_props, skip_from_vcard) ==
    IF to_vcard # "success" THEN "to_vcard"
    ELSE IF invalid_props \/ skip_from_vcard THEN "returned"
    ELSE "to_jscard"

\* where run goes after the first try statement, whatever to_vcard is
AfterFirstTry_Always(to_vcard, invalid_props, skip_from_vcard) ==
    IF skip_from_vcard THEN "returned" ELSE "to_jscard"

\* where run goes after the first try statement
AfterFirstTry(to_vcard, invalid_props, skip_from_vcard) ==
    IF to_vcard # "success" THEN "returned"
    ELSE IF invalid_props THEN "returned"
    ELSE IF skip_from_vcard THEN "returned"
    ELSE "to_jscard"

\* jscard = copy.deepcopy(self.jprops), the defaults, result = Result(...),
\* "if self.skip_to_vcard: return result"
BindCard(c, u) ==
    /\ heap' = [c.heap EXCEPT ![c.ref] = WithCardDefaults(c.heap[c.ref], u)]
    /\ refs' = [refs EXCEPT !.jscard = c.ref]
    /\ result' = Result(c.ref)

Uuids == {"u1", "b"}

RunStart ==
    /\ rpc = "run"
    /\ \E u \in Uuids : BindCard(deepcopy(heap, "jprops", "jscard"), u)
    /\ rpc' = IF tc.skip_to_vcard THEN "returned" ELSE "to_vcard"
    /\ UNCHANGED << tc, calls, mj_raised, mj_diffs >>
    /\ UNCHANGED << vcardvars, cardvars, diffvars, fnvars, sharedvars >>

\* what backend.to_vcard may do: return a text, which parse turns into a
\* record or refuses, or raise
VcardText(parse_raised, vprops) ==
    [kind |-> "text", parse_raised |-> parse_raised, vprops |-> vprops]

VcardRaise(e) == [kind |-> e, parse_raised |-> "", vprops |-> <<>>]

RunRecords ==
    { Wrapped(h \o e) :
        h \in Headers,
        e \in { << Prop(None, "TITLE", <<>>, "b"), Prop(None, "TITLE", <<>>, "a") >>,
                << Prop(None, "TITLE", <<>>, "a") >> } }
        \cup { << Prop(None, "TITLE", <<>>, "a") >> }

ToVcardOutcomes ==
    { VcardText("", r) : r \in RunRecords }
        \cup { VcardText("ParseError", <<>>), VcardText("IndexError", <<>>),
               VcardRaise("InvalidCardError"), VcardRaise("BackendError") }

\* the arms of the first try statement that do not call match_vcard
ToVcardResult(resp) ==
    IF resp.kind = "text"
    THEN [result EXCEPT !.got_vcard = <<resp>>, !.to_vcard = "invalid",
                        !.want_invalid_props = TRUE]
    ELSE IF resp.kind = "InvalidCardError" /\ tc.invalid_props
    THEN [result EXCEPT !.to_vcard = "success"]
    ELSE [result EXCEPT !.got_error = resp.kind, !.to_vcard = "error"]

\* result.got_vcard = backend.to_vcard(jscard)
CallToVcard ==
    /\ rpc = "to_vcard"
    /\ calls' = Append(calls, "to_vcard")
    /\ \E resp \in ToVcardOutcomes :
           IF resp.kind = "text" /\ ~tc.invalid_props
           THEN /\ result' = [result EXCEPT !.got_vcard = <<resp>>]
                /\ rpc' = "match_vcard"
           ELSE /\ result' = ToVcardResult(resp)
                /\ rpc' = "after_to_vcard"
    /\ UNCHANGED << tc, heap, refs, mj_raised, mj_diffs >>
    /\ UNCHANGED << vcardvars, cardvars, diffvars, fnvars, sharedvars >>

\* match_vcard: props = parse(vcard) and the BEGIN/END check; an exception
\* is caught by "except Exception"
MatchVcardParse ==
    /\ rpc = "match_vcard"
    /\ IF result.got_vcard[1].parse_raised # ""
       THEN /\ result' = [result EXCEPT !.got_error = result.got_vcard[1].parse_raised,
                                        !.to_vcard = "error"]
            /\ rpc' = "after_to_vcard"
            /\ heap' = heap
       ELSE /\ heap' = [heap EXCEPT !["vprops"] = result.got_vcard[1].vprops]
            /\ IF MissingBeginOrEnd(result.got_vcard[1].vprops)
               THEN /\ result' = [result EXCEPT !.got_error = "ValueError",
                                                !.to_vcard = "error"]
                    /\ rpc' = "after_to_vcard"
               ELSE /\ result' = result
                    /\ rpc' = "normalize_vcard"
    /\ UNCHANGED << tc, refs, calls, mj_raised, mj_diffs >>
    /\ UNCHANGED << vcardvars, cardvars, diffvars, fnvars, sharedvars >>

\* normalize_vcard: vprops = copy.deepcopy(vprops), the sorts happen on it
SortCopy(c) ==
    /\ heap' = [c.heap EXCEPT ![c.ref] = normalize_vcard(c.heap[c.ref])]
    /\ refs' = [refs EXCEPT !.props = c.ref]

NormalizeVcard ==
    /\ rpc = "normalize_vcard"
    /\ SortCopy(deepcopy(heap, "vprops", "props"))
    /\ rpc' = "match_props"
    /\ UNCHANGED << tc, result, calls, mj_raised, mj_diffs >>
    /\ UNCHANGED << vcardvars, cardvars, diffvars, fnvars, sharedvars >>

\* the props of match_vcard after "props = props[1:-1]"
RunContent == SubSeq(heap[refs.props], 2, Len(heap[refs.props]) - 1)

\* "if match_errors: raise" after the loop and the unmatched diagnostics
LoopRaises(st) == Raises(FinalErrors(st.match_errors, st.matches_by_name))

\* "result.to_vcard = Outcome.success" or the arm "except VCardMatchError"
MatchVcardResult(e) ==
    IF e = "VCardMatchError"
    THEN [result EXCEPT !.got_error = e, !.to_vcard = "invalid"]
    ELSE [result EXCEPT !.to_vcard = "success"]

\* the rest of match_vcard and the assignment after it
MatchProps ==
    /\ rpc = "match_props"
    /\ result' = MatchVcardResult(
                     LoopRaises(MatchLoop(RunContent, InitialState(tc.matches))))
    /\ rpc' = "after_to_vcard"
    /\ UNCHANGED << tc, heap, refs, calls, mj_raised, mj_diffs >>
    /\ UNCHANGED << vcardvars, cardvars, diffvars, fnvars, sharedvars >>

\* the two early returns after the first try statement
AfterToVcard ==
    /\ rpc = "after_to_vcard"
    /\ rpc' = AfterFirstTry(result.to_vcard, tc.invalid_props, tc.skip_from_vcard)
    /\ UNCHANGED << tc, heap, refs, result, calls, mj_raised, mj_diffs >>
    /\ UNCHANGED << vcardvars, cardvars, diffvars, fnvars, sharedvars >>

\* what backend.to_jscard may return for the card that was sent
JscardAnswers(sent) ==
    { sent,
      [sent EXCEPT !.kv = Append(@, <<"created", JStr("a")>>)],
      [sent EXCEPT !.kv = Append(@, <<"a", JInt("2")>>)],
      JDict(<<>>) }

\* result.got_jscard = backend.to_jscard(result.got_vcard)
CallToJscard ==
    /\ rpc = "to_jscard"
    /\ calls' = Append(calls, "to_jscard")
    /\ \E ok \in BOOLEAN :
           IF ok
           THEN /\ \E card \in JscardAnswers(heap[refs.jscard]) :
                       heap' = [heap EXCEPT !["got_jscard"] = card]
                /\ result' = [result EXCEPT !.got_jscard = "got_jscard"]
                /\ rpc' = "match_jscard"
           ELSE /\ heap' = heap
                /\ result' = [result EXCEPT !.got_error = "BackendError",
                                            !.from_vcard = "error"]
                /\ rpc' = "returned"
    /\ UNCHANGED << tc, refs, mj_raised, mj_diffs >>
    /\ UNCHANGED << vcardvars, cardvars, diffvars, fnvars, sharedvars >>

\* the arms of the second try statement after match_jscard
AfterMatchJscard ==
    /\ rpc = "mj_done"
    /\ result' = IF mj_raised = "None" THEN [result EXCEPT !.from_vcard = "success"]
                 ELSE IF mj_raised = "MatchJSCardError"
                 THEN [result EXCEPT !.got_error = mj_raised, !.from_vcard = "invalid"]
                 ELSE [result EXCEPT !.got_error = mj_raised, !.from_vcard = "error"]
    /\ rpc' = "returned"
    /\ UNCHANGED << tc, heap, refs, calls, mj_raised, mj_diffs >>
    /\ UNCHANGED << vcardvars, cardvars, diffvars, fnvars, sharedvars >>

NextRun ==
    \/ RunStart
    \/ CallToVcard
    \/ MatchVcardParse
    \/ NormalizeVcard
    \/ MatchProps
    \/ AfterToVcard
    \/ CallToJscard
    \/ NextMatchJscard
    \/ AfterMatchJscard

\* the cards scenarios declare
DeclaredCards ==
    { JDict(<<>>),
      JDict(Entry("uid", JStr("u1")) \o Entry("kind", JStr("individual"))),
      JDict(Entry("@type", JStr("Card")) \o Entry("version", JStr("1.0"))
                \o Entry("a", JInt("1"))) }

RunWantLists ==
    { <<>>, << PropMatch("TITLE", Literal("a"), <<>>, TRUE, NoAltId, NoGroup) >> }

TestCases ==
    [skip_to_vcard : BOOLEAN, skip_from_vcard : BOOLEAN, invalid_props : BOOLEAN,
     matches : RunWantLists]

InitRun ==
    /\ tc \in TestCases
    /\ \E card \in DeclaredCards : heap = [NoObjects EXCEPT !["jprops"] = card]
    /\ refs = NoRefs
    /\ result = Result("")
    /\ calls = <<>>
    /\ mj_raised = ""
    /\ mj_diffs = EmptyBag
    /\ rpc = "run"
    /\ VcardIdle
    /\ CardIdle
    /\ DiffIdle
    /\ FnIdle
    /\ SharedIdle

SpecRun == InitRun /\ [][NextRun]_vars

\* the positions inside match_jscard
InMatchJscard ==
    rpc \in {"match_jscard", "mj_pop", "mj_vendor", "mj_norm_want", "mj_norm_have",
             "mj_diff"}

\* C23: match_jscard leaves the expected and the observed card it was given
\* unchanged, normalize_vcard leaves the record it was given unchanged, and
\* TestCase.run leaves the card the scenario declares unchanged.
C23_ArgumentsUnchanged ==
    [][ /\ heap'["jprops"] = heap["jprops"]
        /\ InMatchJscard => /\ heap'[refs.jscard] = heap[refs.jscard]
                            /\ heap'["got_jscard"] = heap["got_jscard"]
        /\ rpc = "normalize_vcard" => heap'["vprops"] = heap["vprops"]
      ]_vars

\* a run has returned in which the defaults were added to the card, the
\* record was reordered by normalize_vcard, and both cards were changed by
\* match_jscard, each on a copy
C23_Witness ==
    /\ rpc = "returned"
    /\ result.from_vcard = "success"
    /\ heap["jscard"] # heap["jprops"]
    /\ heap["props"] # heap["vprops"]
    /\ heap["want_card"] # heap["jscard"]
    /\ heap["have_card"] # heap["got_jscard"]

CallCount(op) == Len(SelectSeq(calls, LAMBDA c : c = op))

\* C25: in one run each converter operation is invoked at most once; it is
\* not called again after it returned or failed.
C25_ConvertersCalledOnce ==
    /\ CallCount("to_vcard") <= 1
    /\ CallCount("to_jscard") <= 1
    /\ rpc = "returned" /\ result.to_vcard = "error" => calls = <<"to_vcard">>
    /\ rpc = "returned" /\ result.from_vcard = "error"
           => calls = <<"to_vcard", "to_jscard">>

\* a run has returned after a failed to_vcard, called once
C25_Witness ==
    /\ rpc = "returned"
    /\ result.to_vcard = "error"
    /\ result.got_error = "BackendError"
    /\ calls = <<"to_vcard">>

\* Result.is_success
is_success(res) ==
    res.to_vcard = "success" /\ res.from_vcard \in {"success", "skipped"}

\* match_vcard returns on the text the converter gave
PassedMatchVcard ==
    /\ result.got_vcard # <<>>
    /\ result.got_vcard[1].parse_raised = ""
    /\ ~MissingBeginOrEnd(result.got_vcard[1].vprops)
    /\ RunLoop(ContentProps(result.got_vcard[1].vprops), tc.matches).raised = "None"

\* C30: from_vcard is other than skipped only if to_vcard is success and the
\* scenario has no invalid_props; to_jscard is not invoked before to_vcard
\* returned a record that passed match_vcard; a Result that is_success holds
\* no error.
C30_ResultConsistent ==
    /\ result.from_vcard # "skipped"
           => result.to_vcard = "success" /\ ~tc.invalid_props
    /\ CallCount("to_jscard") > 0
           => /\ calls[1] = "to_vcard"
              /\ result.to_vcard = "success"
              /\ PassedMatchVcard
    /\ is_success(result) => result.got_error = ""

\* a run has returned with both directions successful
C30_Witness ==
    /\ rpc = "returned"
    /\ result.to_vcard = "success"
    /\ result.from_vcard = "success"
    /\ calls = <<"to_vcard", "to_jscard">>

\* a run has returned a failed second direction after a successful first
C30_WitnessInvalid ==
    /\ rpc = "returned"
    /\ result.to_vcard = "success"
    /\ result.from_vcard = "invalid"

(***************************************************************************)
(* Invocations of match_vcard on the same pattern list                     *)
(***************************************************************************)

\* the shared objects for a pattern list: the caller's patterns, then the
\* module's default_matches
SharedPatterns(want) ==
    [objs |-> want \o default_matches,
     want_list |-> [i \in DOMAIN want |-> i],
     default_list |-> [i \in DOMAIN default_matches |-> Len(want) + i]]

\* the PropMatch objects a list holds, as they are now
Held(shared, list) ==
    [i \in DOMAIN list |-> [pid |-> list[i]] @@ shared.objs[list[i]]]

\* matches_by_name as an invocation builds it from the two shared lists
SharedMatchesByName(shared) ==
    AppendByName(
        AppendByName(<<>>, Held(shared, shared.want_list)),
        SelectSeq(Held(shared, shared.default_list),
                  LAMBDA pm : \A i \in DOMAIN shared.want_list :
                                  shared.objs[shared.want_list[i]].name # pm.name))

\* the candidates of the local lists, each with what its PropMatch object
\* holds now
Refreshed(st, shared) ==
    [st EXCEPT !.matches_by_name =
        [n \in DOMAIN @ |->
            << @[n][1],
               [i \in DOMAIN @[n][2] |->
                   [pid |-> @[n][2][i].pid] @@ shared.objs[@[n][2][i].pid]] >>]]

\* the shared objects after one property, had "del matches[pos]" acted on the
\* caller's list: the patterns the local lists lost are deleted from it
WriteBack_IntoCallerList(shared, before, after) ==
    [shared EXCEPT !.want_list =
        SelectSeq(@, LAMBDA pid : \/ pid \notin PidsIn(before.matches_by_name)
                                  \/ pid \in PidsIn(after.matches_by_name))]

\* the shared objects after one property: "del matches[pos]" and
\* "del param_matches[pos]" act on lists the invocation made itself
WriteBack(shared, before, after) == shared

\* most invocations on one pattern list
MaxInvocations == 2

SharedWantLists ==
    { <<>>,
      << PropMatch("TITLE", AnyValue, <<>>, TRUE, NoAltId, NoGroup) >>,
      << PropMatch("TITLE", Literal("a"), <<ParamMatch("VALUE", AnyValue, FALSE)>>,
                   FALSE, NoAltId, NoGroup),
         PropMatch("TITLE", AnyValue, <<>>, TRUE, NoAltId, NoGroup) >> }

SharedRecords ==
    { << Prop(None, "TITLE", <<>>, "a") >>,
      Wrapped(<< Prop(None, "TITLE", <<>>, "a") >>),
      Wrapped(<< Prop(None, "TITLE", <<Param("VALUE", "a")>>, "a"),
                 Prop(None, "TITLE", <<>>, "b") >>),
      Wrapped(<< Prop(None, "TITLE", <<>>, "b"), Prop(None, "TITLE", <<>>, "a") >>),
      Wrapped(<< Prop(None, "X-FOO", <<>>, "bar"), Prop(None, "UID", <<>>, "u1") >>) }

NotStarted ==
    [pc |-> "start", props |-> <<>>, i |-> 0, raised |-> "",
     st |-> [matches_by_name |-> <<>>, group_by_id |-> <<>>, altid_by_id |-> <<>>,
             match_errors |-> <<>>]]

InitShared ==
    /\ \E want \in SharedWantLists, records \in [1..MaxInvocations -> SharedRecords] :
           /\ given = [want |-> want, records |-> records]
           /\ patterns = SharedPatterns(want)
    /\ invs = [k \in 1..MaxInvocations |-> NotStarted]
    /\ VcardIdle
    /\ CardIdle
    /\ DiffIdle
    /\ FnIdle
    /\ RunIdle

\* parse, the BEGIN/END check that raises
InvRaiseMissing(k) ==
    /\ invs[k].pc = "start"
    /\ MissingBeginOrEnd(given.records[k])
    /\ invs' = [invs EXCEPT ![k].pc = "done", ![k].raised = "ValueError"]
    /\ UNCHANGED << patterns, given >>
    /\ UNCHANGED << vcardvars, cardvars, diffvars, fnvars, runvars >>

\* normalize_vcard, props[1:-1], matches_by_name built from the shared lists
InvSetup(k) ==
    /\ invs[k].pc = "start"
    /\ ~MissingBeginOrEnd(given.records[k])
    /\ invs' = [invs EXCEPT ![k].pc = "loop", ![k].i = 1,
                            ![k].props = ContentProps(given.records[k]),
                            ![k].st.matches_by_name = SharedMatchesByName(patterns)]
    /\ UNCHANGED << patterns, given >>
    /\ UNCHANGED << vcardvars, cardvars, diffvars, fnvars, runvars >>

\* one iteration of "for prop in props"
StoreStep(k, before, after) ==
    /\ invs' = [invs EXCEPT ![k].st = after, ![k].i = @ + 1]
    /\ patterns' = WriteBack(patterns, before, after)

InvProp(k) ==
    /\ invs[k].pc = "loop"
    /\ invs[k].i <= Len(invs[k].props)
    /\ StoreStep(k, invs[k].st,
                 ProcessProp(Refreshed(invs[k].st, patterns),
                             invs[k].props[invs[k].i]))
    /\ UNCHANGED given
    /\ UNCHANGED << vcardvars, cardvars, diffvars, fnvars, runvars >>

\* the unmatched diagnostics, "if match_errors: raise"
StoreFinal(k, errors) ==
    invs' = [invs EXCEPT ![k].pc = "done", ![k].st.match_errors = errors,
                         ![k].raised = Raises(errors)]

InvFinish(k) ==
    /\ invs[k].pc = "loop"
    /\ invs[k].i > Len(invs[k].props)
    /\ StoreFinal(k, FinalErrors(invs[k].st.match_errors,
                                 Refreshed(invs[k].st, patterns).matches_by_name))
    /\ UNCHANGED << patterns, given >>
    /\ UNCHANGED << vcardvars, cardvars, diffvars, fnvars, runvars >>

NextShared ==
    \E k \in 1..MaxInvocations :
        \/ InvRaiseMissing(k)
        \/ InvSetup(k)
        \/ InvProp(k)
        \/ InvFinish(k)

SpecShared == InitShared /\ [][NextShared]_vars

\* what a single invocation on the given pattern list reports for a record
AloneRaised(record) ==
    IF MissingBeginOrEnd(record) THEN "ValueError"
    ELSE RunLoop(ContentProps(record), given.want).raised

AloneErrors(record) ==
    IF MissingBeginOrEnd(record) THEN <<>>
    ELSE RunLoop(ContentProps(record), given.want).match_errors

====
